---- MODULE Spec2Model ----
(***************************************************************************)
(* A model of the bo-nedaber matching engine: the per-user state machine   *)
(* of bo_nedaber.py (handle_update and the handlers it dispatches to), the *)
(* in-memory database of mem_db.py (the state map and its two priority     *)
(* indices) and the driver steps of main.py that feed it (the webhook and  *)
(* the scheduler).                                                         *)
(***************************************************************************)
EXTENDS Integers, Sequences, FiniteSets, TLC

\* ---------------------------------------------------------------------
\* Protocol constants (bo_nedaber.py)
\* ---------------------------------------------------------------------
ASKING_DURATION == 19
SEARCH_DURATION == 60
SEARCH_UPDATE_INTERVAL == 5
SURVEY_DURATION == 60

\* ---------------------------------------------------------------------
\* Bounds of the model
\* ---------------------------------------------------------------------
\* The clock (Timestamp.now()) is not advanced beyond MaxTime.
MaxTime == 60

\* The users that send updates.
Uid == {1, 2, 3}

\* Python's None, for the optional integer fields (uids and timestamps are >= 0).
None == -1

\* models.py enums
PRO == "PRO"
CON == "CON"
Opinion == {PRO, CON}
MALE == "MALE"
FEMALE == "FEMALE"
Sex == {MALE, FEMALE}

\* Cmd values (models.py, class Cmd)
SCHED == "sched"
MALE_PRO == "male-pro"
MALE_CON == "male-con"
FEMALE_PRO == "female-pro"
FEMALE_CON == "female-con"
IM_AVAILABLE_NOW == "im-available-now"
STOP_SEARCHING == "stop-searching"
IM_NO_LONGER_AVAILABLE == "im-no-longer-available"
ANSWER_AVAILABLE == "answer-available"
ANSWER_UNAVAILABLE == "answer-unavailable"
S1 == "s1"
S2 == "s2"
S3 == "s3"
S4 == "s4"
S5 == "s5"
S_DIDNT_TALK == "s-didnt-talk"
S_NO_ANSWER == "s-no-answer"
SurveyCmds == {S1, S2, S3, S4, S5, S_DIDNT_TALK, S_NO_ANSWER}
Cmd == {SCHED, MALE_PRO, MALE_CON, FEMALE_PRO, FEMALE_CON, IM_AVAILABLE_NOW,
        STOP_SEARCHING, IM_NO_LONGER_AVAILABLE, ANSWER_AVAILABLE,
        ANSWER_UNAVAILABLE} \cup SurveyCmds

\* ---------------------------------------------------------------------
\* User states (models.py).  One record shape for every variant; the fields
\* a variant does not have hold None / "".
\* ---------------------------------------------------------------------
StateTags == {"InitialState", "WaitingForOpinion", "WaitingForName", "Inactive",
              "Asking", "Waiting", "Active", "Asked"}

Blank(uid, tag) ==
    [uid |-> uid, tag |-> tag, name |-> "", sex |-> "", opinion |-> "",
     survey_ts |-> None, searching_until |-> None, next_refresh |-> None,
     asked_uid |-> None, asking_until |-> None, waited_by |-> None,
     waiting_for |-> None, since |-> None, until |-> None, asked_by |-> None]

InitialState(uid) == Blank(uid, "InitialState")

WaitingForOpinion(uid, name) == [Blank(uid, "WaitingForOpinion") EXCEPT !.name = name]

\* The fields of WithOpinionBase, carried over by every get_* constructor.
WithOpinionBase(s, tag) ==
    [Blank(s.uid, tag) EXCEPT !.name = s.name, !.sex = s.sex, !.opinion = s.opinion]

WaitingForName(uid, name, sex, opinion) ==
    [Blank(uid, "WaitingForName") EXCEPT !.name = name, !.sex = sex, !.opinion = opinion]

Inactive(uid, name, sex, opinion, survey_ts) ==
    [Blank(uid, "Inactive") EXCEPT !.name = name, !.sex = sex, !.opinion = opinion,
                                   !.survey_ts = survey_ts]

get_inactive(s, survey_ts) ==
    Inactive(s.uid, s.name, s.sex, s.opinion, survey_ts)

get_asking(s, searching_until, next_refresh, asked_uid, asking_until, waited_by) ==
    [WithOpinionBase(s, "Asking") EXCEPT !.searching_until = searching_until,
                                         !.next_refresh = next_refresh,
                                         !.asked_uid = asked_uid,
                                         !.asking_until = asking_until,
                                         !.waited_by = waited_by]

get_waiting(s, searching_until, next_refresh, waiting_for) ==
    [WithOpinionBase(s, "Waiting") EXCEPT !.searching_until = searching_until,
                                          !.next_refresh = next_refresh,
                                          !.waiting_for = waiting_for]

get_asked(s, until, asked_by) ==
    [WithOpinionBase(s, "Asked") EXCEPT !.until = until, !.asked_by = asked_by]

get_active(s, since) ==
    [WithOpinionBase(s, "Active") EXCEPT !.since = since]

\* isinstance(state, WithOpinionBase)
IsWithOpinion(s) ==
    s.tag \in {"WaitingForName", "Inactive", "Asking", "Waiting", "Active", "Asked"}

\* isinstance(state, SearchingBase)
IsSearching(s) == s.tag \in {"Asking", "Waiting"}

\* The sched property of each variant.
sched(s) ==
    CASE s.tag = "Inactive" -> s.survey_ts
      [] s.tag \in {"Asking", "Waiting"} -> s.next_refresh
      [] s.tag = "Asked" -> s.until
      [] OTHER -> None

\* ---------------------------------------------------------------------
\* mem_db.py
\* ---------------------------------------------------------------------
\* A score is a pair <<class, key>>; NoScore is get_search_score's None.
NoScore == <<>>

\* A variant of get_search_score that puts the Asking users first.
get_search_score_AskingFirst(s, opinion) ==
    IF ~IsWithOpinion(s) THEN NoScore
    ELSE IF s.opinion # opinion THEN NoScore
    ELSE IF s.tag = "Waiting" THEN <<2, s.searching_until>>
    ELSE IF s.tag = "Asking" /\ s.waited_by = None THEN <<1, s.asking_until>>
    ELSE IF s.tag = "Active" THEN <<3, 0 - s.since>>
    ELSE NoScore

get_search_score(s, opinion) ==
    IF ~IsWithOpinion(s) THEN NoScore
    ELSE IF s.opinion # opinion THEN NoScore
    ELSE IF s.tag = "Waiting" THEN <<1, s.searching_until>>
    ELSE IF s.tag = "Asking" /\ s.waited_by = None THEN <<2, s.asking_until>>
    ELSE IF s.tag = "Active" THEN <<3, 0 - s.since>>
    ELSE NoScore

\* Python's order on (int, int) tuples.
ScoreLess(a, b) == a[1] < b[1] \/ (a[1] = b[1] /\ a[2] < b[2])

\* A PQDict is modelled as the function from its keys to their priorities.
PQEmpty == [k \in {} |-> 0]

\* pq[k] = v
PQSetItem(pq, k, v) ==
    [x \in (DOMAIN pq) \cup {k} |-> IF x = k THEN v ELSE pq[x]]

\* pq.pop(k, None)
PQPop(pq, k) == [x \in (DOMAIN pq) \ {k} |-> pq[x]]

\* The keys top() can return: a key whose priority no other key's precedes.
\* Which of several such keys is on top of the heap depends on the order of
\* the insertions.
ScoreTops(pq) ==
    {k \in DOMAIN pq : \A j \in DOMAIN pq : ~ScoreLess(pq[j], pq[k])}

\* A variant of SchedTops with the latest instead of the earliest keys.
SchedTops_Latest(pq) ==
    {k \in DOMAIN pq : \A j \in DOMAIN pq : ~(pq[k] < pq[j])}

SchedTops(pq) ==
    {k \in DOMAIN pq : \A j \in DOMAIN pq : ~(pq[j] < pq[k])}

\* A variant of PickTop that takes the least key.
PickTop_Least(tops, pick) ==
    CHOOSE k \in tops : \A j \in tops : k <= j

\* One of the keys of `tops`: `pick` when it is one of them.
PickTop(tops, pick) ==
    IF pick \in tops THEN pick
    ELSE CHOOSE k \in tops : \A j \in tops : k <= j

\* MemDb() : the empty database, with the empty _txdata of a DbTx over it
MemDbInit ==
    [states |-> [u \in {} |-> 0],
     by_score |-> [o \in Opinion |-> PQEmpty],
     by_sched |-> PQEmpty,
     txdata |-> PQEmpty]

\* MemDb.get
Get(db, uid) ==
    IF uid \in DOMAIN db.states THEN db.states[uid] ELSE InitialState(uid)

\* A variant of MemDb.set that leaves a uid without a score in the index.
Set_KeepScore(db, s) ==
    [states |-> [u \in (DOMAIN db.states) \cup {s.uid} |->
                    IF u = s.uid THEN s ELSE db.states[u]],
     by_sched |-> IF sched(s) = None THEN PQPop(db.by_sched, s.uid)
                  ELSE PQSetItem(db.by_sched, s.uid, sched(s)),
     by_score |-> [o \in Opinion |->
                    IF get_search_score(s, o) = NoScore
                    THEN db.by_score[o]
                    ELSE PQSetItem(db.by_score[o], s.uid, get_search_score(s, o))],
     txdata |-> PQSetItem(db.txdata, s.uid, s)]

\* Tx.set: MemDb.set, and for a DbTx the entry of the state in _txdata.
Set(db, s) ==
    [states |-> [u \in (DOMAIN db.states) \cup {s.uid} |->
                    IF u = s.uid THEN s ELSE db.states[u]],
     by_sched |-> IF sched(s) = None THEN PQPop(db.by_sched, s.uid)
                  ELSE PQSetItem(db.by_sched, s.uid, sched(s)),
     by_score |-> [o \in Opinion |->
                    IF get_search_score(s, o) = NoScore
                    THEN PQPop(db.by_score[o], s.uid)
                    ELSE PQSetItem(db.by_score[o], s.uid, get_search_score(s, o))],
     txdata |-> PQSetItem(db.txdata, s.uid, s)]

\* The state "None" that search_for_user and get_first_sched can return.
NoState == Blank(None, "None")

\* MemDb.search_for_user: [state, err]; err when the KeyError or the assertion
\* of the lookup is raised.
search_for_user(db, opinion, pick) ==
    IF DOMAIN db.by_score[opinion] = {} THEN [state |-> NoState, err |-> FALSE]
    ELSE LET uid == PickTop(ScoreTops(db.by_score[opinion]), pick)
         IN IF uid \notin DOMAIN db.states
            THEN [state |-> NoState, err |-> TRUE]
            ELSE IF db.states[uid].tag \notin {"Waiting", "Asking", "Active"}
            THEN [state |-> NoState, err |-> TRUE]
            ELSE [state |-> db.states[uid], err |-> FALSE]

\* MemDb.get_first_sched
get_first_sched(db, pick) ==
    IF DOMAIN db.by_sched = {} THEN NoState
    ELSE db.states[PickTop(SchedTops(db.by_sched), pick)]

\* ---------------------------------------------------------------------
\* Messages to users (models.py) and the other methods handle_update returns.
\* One record shape: the fields a kind does not have hold None / "".
\* ---------------------------------------------------------------------
Msg(kind, uid) ==
    [kind |-> kind, uid |-> uid, other_uid |-> None, other_name |-> "",
     other_sex |-> "", seconds_left |-> None, reply |-> ""]

UnexpectedReqMsg(uid) == Msg("Unexpected", uid)
WelcomeMsg(uid) == Msg("Welcome", uid)
WhatIsYourOpinionMsg(uid) == Msg("WhatIsYourOpinion", uid)
TypeNameMsg(uid) == Msg("TypeName", uid)
RegisteredMsg(uid) == Msg("Registered", uid)
InactiveMsg(uid) == Msg("Inactive", uid)
SearchingMsg(uid) == Msg("Searching", uid)
UpdateSearchingMsg(uid, seconds_left) ==
    [Msg("UpdateSearching", uid) EXCEPT !.seconds_left = seconds_left]
FoundPartnerMsg(uid, other_uid, other_name, other_sex) ==
    [Msg("FoundPartner", uid) EXCEPT !.other_uid = other_uid,
                                     !.other_name = other_name,
                                     !.other_sex = other_sex]
AreYouAvailableMsg(uid, other_sex) ==
    [Msg("AreYouAvailable", uid) EXCEPT !.other_sex = other_sex]
AfterAskingTimedOut(uid) == Msg("AfterAskingTimedOut", uid)
AfterReplyUnavailableMsg(uid) == Msg("AfterReplyUnavailable", uid)
SearchTimedOutMsg(uid) == Msg("SearchTimedOut", uid)
AfterStopSearchMsg(uid) == Msg("AfterStopSearch", uid)
HowWasTheCallMsg(uid) == Msg("HowWasTheCall", uid)
ThanksForAnsweringMsg(uid, reply) ==
    [Msg("ThanksForAnswering", uid) EXCEPT !.reply = reply]

\* The methods of handle_update that are no Msg: the acknowledgement of a
\* button press, the echo of the pressed button, and the /about text.
AnswerCallbackQuery(uid) == Msg("AnswerCallbackQuery", uid)
EchoMethod(uid, cmd) == [Msg("Echo", uid) EXCEPT !.reply = cmd]
AboutMethod(uid) == Msg("About", uid)

\* ---------------------------------------------------------------------
\* The result of a handler: the database after the set calls it made, the
\* messages it returned, and whether it raised (then nothing is returned,
\* and the set calls made before the exception stay applied).
\* ---------------------------------------------------------------------
Ok(db, msgs) == [db |-> db, msgs |-> msgs, err |-> FALSE, found |-> FALSE]
Raise(db) == [db |-> db, msgs |-> <<>>, err |-> TRUE, found |-> FALSE]

\* ---------------------------------------------------------------------
\* bo_nedaber.py
\* ---------------------------------------------------------------------
other_opinion(opinion) == IF opinion = PRO THEN CON ELSE PRO

Min(a, b) == IF a <= b THEN a ELSE b

\* A variant of round_up that always goes to the next multiple of m, also
\* when n is a multiple of m.
round_up_Next(n, m) == n + (m - (n % m))

\* round_up(n, m) = n + (-n % m)
round_up(n, m) == n + ((0 - n) % m)

\* The Waiting branch of search_for_match: state2 is the Waiting user found.
SearchFoundWaiting(db, ts, state, state2) ==
    LET state3 == Get(db, state2.waiting_for)
        db1 == IF state2.waiting_for # None
               THEN Set(db, [state3 EXCEPT !.waited_by = None])
               ELSE db
        db2 == Set(db1, get_inactive(state, ts + SURVEY_DURATION))
        db3 == Set(db2, get_inactive(state2, ts + SURVEY_DURATION))
    IN IF state2.waiting_for # None /\ state3.tag # "Asking" THEN Raise(db)
       ELSE IF state2.waiting_for # None /\ state3.waited_by # state2.waiting_for
       THEN Raise(db)
       ELSE [Ok(db3, << FoundPartnerMsg(state.uid, state2.uid, state2.name, state2.sex),
                        FoundPartnerMsg(state2.uid, state.uid, state.name, state.sex) >>)
             EXCEPT !.found = TRUE]

\* A variant of SearchFoundAsking that does not note the reservation at the
\* Asking user.
SearchFoundAsking_OneSided(db, state, state2, searching_until, next_refresh) ==
    IF state2.waited_by # None THEN Raise(db)
    ELSE IF state2.asking_until <= searching_until
    THEN Ok(Set(db, get_waiting(state, searching_until, next_refresh, state2.uid)), <<>>)
    ELSE Ok(Set(db, get_waiting(state, searching_until, next_refresh, None)), <<>>)

\* The Asking branch of search_for_match: state2 is the Asking user found.
SearchFoundAsking(db, state, state2, searching_until, next_refresh) ==
    IF state2.waited_by # None THEN Raise(db)
    ELSE IF state2.asking_until <= searching_until
    THEN Ok(Set(Set(db, get_waiting(state, searching_until, next_refresh, state2.uid)),
                [state2 EXCEPT !.waited_by = state.uid]),
            <<>>)
    ELSE Ok(Set(db, get_waiting(state, searching_until, next_refresh, None)), <<>>)

\* A variant of SearchFoundActive that matches the Active user without asking.
SearchFoundActive_NoAsk(db, ts, state, state2, searching_until, next_refresh) ==
    [Ok(Set(Set(db, get_inactive(state, ts + SURVEY_DURATION)),
            get_inactive(state2, ts + SURVEY_DURATION)),
        << FoundPartnerMsg(state.uid, state2.uid, state2.name, state2.sex),
           FoundPartnerMsg(state2.uid, state.uid, state.name, state.sex) >>)
     EXCEPT !.found = TRUE]

\* A variant of SearchFoundActive that asks without looking at the time the
\* search has left.
SearchFoundActive_AlwaysAsk(db, ts, state, state2, searching_until, next_refresh) ==
    Ok(Set(Set(db, get_asking(state, searching_until, next_refresh,
                              state2.uid, ts + ASKING_DURATION, None)),
           get_asked(state2, ts + ASKING_DURATION, state.uid)),
       << AreYouAvailableMsg(state2.uid, state.sex) >>)

\* A variant of SearchFoundActive that asks the Active user without sending
\* it the question.
SearchFoundActive_Silent(db, ts, state, state2, searching_until, next_refresh) ==
    LET asking_until == ts + ASKING_DURATION
    IN IF asking_until <= searching_until
       THEN Ok(Set(Set(db, get_asking(state, searching_until, next_refresh,
                                      state2.uid, asking_until, None)),
                   get_asked(state2, asking_until, state.uid)),
               <<>>)
       ELSE Ok(Set(db, get_waiting(state, searching_until, next_refresh, None)), <<>>)

\* The Active branch of search_for_match: state2 is the Active user found.
SearchFoundActive(db, ts, state, state2, searching_until, next_refresh) ==
    LET asking_until == ts + ASKING_DURATION
    IN IF asking_until <= searching_until
       THEN Ok(Set(Set(db, get_asking(state, searching_until, next_refresh,
                                      state2.uid, asking_until, None)),
                   get_asked(state2, asking_until, state.uid)),
               << AreYouAvailableMsg(state2.uid, state.sex) >>)
       ELSE Ok(Set(db, get_waiting(state, searching_until, next_refresh, None)), <<>>)

\* A variant of search_for_match in which every search starts a new window.
search_for_match_NewWindow(db, ts, state, pick) ==
    LET searching_until == ts + SEARCH_DURATION
        next_refresh == ts + SEARCH_UPDATE_INTERVAL
        r == search_for_user(db, other_opinion(state.opinion), pick)
        state2 == r.state
    IN IF r.err THEN Raise(db)
       ELSE IF state2.tag = "Waiting" THEN SearchFoundWaiting(db, ts, state, state2)
       ELSE IF state2.tag = "Asking"
       THEN SearchFoundAsking(db, state, state2, searching_until, next_refresh)
       ELSE IF state2.tag = "Active"
       THEN SearchFoundActive(db, ts, state, state2, searching_until, next_refresh)
       ELSE Ok(Set(db, get_waiting(state, searching_until, next_refresh, None)), <<>>)

search_for_match(db, ts, state, pick) ==
    LET searching_until == IF IsSearching(state) THEN state.searching_until
                           ELSE ts + SEARCH_DURATION
        next_refresh == IF IsSearching(state) THEN state.next_refresh
                        ELSE ts + SEARCH_UPDATE_INTERVAL
        r == search_for_user(db, other_opinion(state.opinion), pick)
        state2 == r.state
    IN IF r.err THEN Raise(db)
       ELSE IF state2.tag = "Waiting" THEN SearchFoundWaiting(db, ts, state, state2)
       ELSE IF state2.tag = "Asking"
       THEN SearchFoundAsking(db, state, state2, searching_until, next_refresh)
       ELSE IF state2.tag = "Active"
       THEN SearchFoundActive(db, ts, state, state2, searching_until, next_refresh)
       ELSE Ok(Set(db, get_waiting(state, searching_until, next_refresh, None)), <<>>)

\* A handler's messages followed by those of the search it ends with; the
\* exception of the search is the handler's.
ThenSearch(msgs, r) ==
    IF r.err THEN Raise(r.db) ELSE Ok(r.db, msgs \o r.msgs)

handle_cmd_waiting_for_opinion(db, state, cmd) ==
    IF cmd \in {MALE_PRO, MALE_CON, FEMALE_PRO, FEMALE_CON}
    THEN LET sex == IF cmd \in {MALE_PRO, MALE_CON} THEN MALE ELSE FEMALE
             opinion == IF cmd \in {MALE_PRO, FEMALE_PRO} THEN PRO ELSE CON
         IN Ok(Set(db, WaitingForName(state.uid, state.name, sex, opinion)),
               << TypeNameMsg(state.uid) >>)
    ELSE Ok(db, << UnexpectedReqMsg(state.uid) >>)

\* The IM_AVAILABLE_NOW branch of handle_cmd_inactive and handle_cmd_active.
ImAvailableNow(db, ts, state, pick) ==
    LET r == search_for_match(db, ts, state, pick)
    IN IF r.err THEN Raise(r.db)
       ELSE IF ~r.found THEN Ok(r.db, r.msgs \o << SearchingMsg(state.uid) >>)
       ELSE Ok(r.db, r.msgs)

\* A variant of handle_cmd_inactive in which a survey reply also clears the
\* survey_ts of the user.
handle_cmd_inactive_ReplyClears(db, ts, state, cmd, pick) ==
    IF cmd = IM_AVAILABLE_NOW THEN ImAvailableNow(db, ts, state, pick)
    ELSE IF cmd = SCHED
    THEN Ok(Set(db, get_inactive(state, None)), << HowWasTheCallMsg(state.uid) >>)
    ELSE IF cmd \in SurveyCmds
    THEN Ok(Set(db, get_inactive(state, None)),
            << ThanksForAnsweringMsg(state.uid, cmd) >>)
    ELSE Ok(db, << UnexpectedReqMsg(state.uid) >>)

handle_cmd_inactive(db, ts, state, cmd, pick) ==
    IF cmd = IM_AVAILABLE_NOW THEN ImAvailableNow(db, ts, state, pick)
    ELSE IF cmd = SCHED
    THEN Ok(Set(db, get_inactive(state, None)), << HowWasTheCallMsg(state.uid) >>)
    ELSE IF cmd \in SurveyCmds
    THEN Ok(db, << ThanksForAnsweringMsg(state.uid, cmd) >>)
    ELSE Ok(db, << UnexpectedReqMsg(state.uid) >>)

\* A variant of handle_cmd_active that asks an Active user that leaves for
\* the name again.
handle_cmd_active_AskName(db, ts, state, cmd, pick) ==
    IF cmd = IM_AVAILABLE_NOW THEN ImAvailableNow(db, ts, state, pick)
    ELSE IF cmd = IM_NO_LONGER_AVAILABLE
    THEN Ok(Set(db, WaitingForName(state.uid, state.name, state.sex, state.opinion)),
            << TypeNameMsg(state.uid) >>)
    ELSE Ok(db, << UnexpectedReqMsg(state.uid) >>)

handle_cmd_active(db, ts, state, cmd, pick) ==
    IF cmd = IM_AVAILABLE_NOW THEN ImAvailableNow(db, ts, state, pick)
    ELSE IF cmd = IM_NO_LONGER_AVAILABLE
    THEN Ok(Set(db, get_inactive(state, None)),
            << AfterReplyUnavailableMsg(state.uid) >>)
    ELSE Ok(db, << UnexpectedReqMsg(state.uid) >>)

\* A variant of ReleaseLinks that releases the asked user of an Asking user
\* without searching again for its runner-up.
ReleaseLinks_NoResearch(db, ts, state, msgs, pick) ==
    IF state.tag = "Asking"
    THEN LET asked == Get(db, state.asked_uid)
             db1 == Set(db, get_inactive(asked, None))
             msgs1 == Append(msgs, AfterAskingTimedOut(state.asked_uid))
         IN IF asked.tag # "Asked" THEN Raise(db) ELSE Ok(db1, msgs1)
    ELSE LET asking == Get(db, state.waiting_for)
         IN IF state.waiting_for = None THEN Ok(db, msgs)
            ELSE IF asking.tag # "Asking" THEN Raise(db)
            ELSE Ok(Set(db, [asking EXCEPT !.waited_by = None]), msgs)

\* The release of the links of a Searching user that timed out or stopped
\* (handle_cmd_searching, after the user's own state was set): db and msgs
\* are the database and the messages so far.
ReleaseLinks(db, ts, state, msgs, pick) ==
    IF state.tag = "Asking"
    THEN LET asked == Get(db, state.asked_uid)
             db1 == Set(db, get_inactive(asked, None))
             msgs1 == Append(msgs, AfterAskingTimedOut(state.asked_uid))
             waiting == Get(db1, state.waited_by)
         IN IF asked.tag # "Asked" THEN Raise(db)
            ELSE IF state.waited_by = None THEN Ok(db1, msgs1)
            ELSE IF waiting.tag # "Waiting" THEN Raise(db1)
            ELSE ThenSearch(msgs1, search_for_match(db1, ts, waiting, pick))
    ELSE LET asking == Get(db, state.waiting_for)
         IN IF state.waiting_for = None THEN Ok(db, msgs)
            ELSE IF asking.tag # "Asking" THEN Raise(db)
            ELSE Ok(Set(db, [asking EXCEPT !.waited_by = None]), msgs)

\* A variant of handle_cmd_searching whose refresh also prolongs the search.
handle_cmd_searching_RefreshProlongs(db, ts, state, cmd, pick) ==
    IF cmd = SCHED /\ state.searching_until > ts
    THEN Ok(Set(db, [state EXCEPT !.next_refresh =
                        Min(state.searching_until, ts + SEARCH_UPDATE_INTERVAL),
                                  !.searching_until = ts + SEARCH_DURATION]),
            << UpdateSearchingMsg(state.uid,
                   round_up(state.searching_until - ts, SEARCH_UPDATE_INTERVAL)) >>)
    ELSE IF cmd = SCHED
    THEN ReleaseLinks(Set(db, get_active(state, ts)), ts, state,
                      << SearchTimedOutMsg(state.uid) >>, pick)
    ELSE IF cmd = STOP_SEARCHING
    THEN ReleaseLinks(Set(db, get_inactive(state, None)), ts, state,
                      << AfterStopSearchMsg(state.uid) >>, pick)
    ELSE Ok(db, << UnexpectedReqMsg(state.uid) >>)

handle_cmd_searching(db, ts, state, cmd, pick) ==
    IF cmd = SCHED /\ state.searching_until > ts
    THEN Ok(Set(db, [state EXCEPT !.next_refresh =
                        Min(state.searching_until, ts + SEARCH_UPDATE_INTERVAL)]),
            << UpdateSearchingMsg(state.uid,
                   round_up(state.searching_until - ts, SEARCH_UPDATE_INTERVAL)) >>)
    ELSE IF cmd = SCHED
    THEN ReleaseLinks(Set(db, get_active(state, ts)), ts, state,
                      << SearchTimedOutMsg(state.uid) >>, pick)
    ELSE IF cmd = STOP_SEARCHING
    THEN ReleaseLinks(Set(db, get_inactive(state, None)), ts, state,
                      << AfterStopSearchMsg(state.uid) >>, pick)
    ELSE Ok(db, << UnexpectedReqMsg(state.uid) >>)

\* A variant of AnswerAvailable that tells only the user that answered.
AnswerAvailable_OneSided(db, ts, state, other, pick) ==
    LET msgs == << FoundPartnerMsg(state.uid, other.uid, other.name, other.sex) >>
        db1 == Set(db, get_inactive(state, ts + SURVEY_DURATION))
        db2 == Set(db1, get_inactive(other, ts + SURVEY_DURATION))
        waiting == Get(db2, other.waited_by)
    IN IF other.waited_by = None THEN Ok(db2, msgs)
       ELSE IF waiting.tag # "Waiting" THEN Raise(db2)
       ELSE ThenSearch(msgs, search_for_match(db2, ts, waiting, pick))

\* The ANSWER_AVAILABLE branch of handle_cmd_asked; other is the asker.
AnswerAvailable(db, ts, state, other, pick) ==
    LET msgs == << FoundPartnerMsg(state.uid, other.uid, other.name, other.sex),
                   FoundPartnerMsg(other.uid, state.uid, state.name, state.sex) >>
        db1 == Set(db, get_inactive(state, ts + SURVEY_DURATION))
        db2 == Set(db1, get_inactive(other, ts + SURVEY_DURATION))
        waiting == Get(db2, other.waited_by)
    IN IF other.waited_by = None THEN Ok(db2, msgs)
       ELSE IF waiting.tag # "Waiting" THEN Raise(db2)
       ELSE ThenSearch(msgs, search_for_match(db2, ts, waiting, pick))

handle_cmd_asked(db, ts, state, cmd, pick) ==
    LET other == Get(db, state.asked_by)
    IN IF other.tag # "Asking" THEN Raise(db)
       ELSE IF cmd = ANSWER_AVAILABLE THEN AnswerAvailable(db, ts, state, other, pick)
       ELSE IF cmd \in {ANSWER_UNAVAILABLE, SCHED}
       THEN ThenSearch(IF cmd = ANSWER_UNAVAILABLE
                       THEN << AfterReplyUnavailableMsg(state.uid) >>
                       ELSE << AfterAskingTimedOut(state.uid) >>,
                       search_for_match(Set(db, get_inactive(state, None)),
                                        ts, other, pick))
       ELSE Ok(db, << UnexpectedReqMsg(state.uid) >>)

handle_cmd(db, ts, state, cmd, pick) ==
    IF state.tag = "InitialState" THEN Ok(db, << UnexpectedReqMsg(state.uid) >>)
    ELSE IF state.tag = "WaitingForOpinion"
    THEN handle_cmd_waiting_for_opinion(db, state, cmd)
    ELSE IF state.tag = "WaitingForName" THEN Ok(db, << UnexpectedReqMsg(state.uid) >>)
    ELSE IF state.tag = "Inactive" THEN handle_cmd_inactive(db, ts, state, cmd, pick)
    ELSE IF IsSearching(state) THEN handle_cmd_searching(db, ts, state, cmd, pick)
    ELSE IF state.tag = "Asked" THEN handle_cmd_asked(db, ts, state, cmd, pick)
    ELSE handle_cmd_active(db, ts, state, cmd, pick)

\* handle_msg over the messages of handle_cmd: every message other than
\* UpdateSearchingMsg is rendered for the recipient's state, which must be a
\* WithOpinionBase.  The rendering itself (texts, keyboards, msg_ids) is not
\* modelled: a rendered message is recorded as the message.
handle_msgs(methods, r) ==
    IF r.err THEN Raise(r.db)
    ELSE IF \E i \in 1..Len(r.msgs) :
                /\ r.msgs[i].kind # "UpdateSearching"
                /\ ~IsWithOpinion(Get(r.db, r.msgs[i].uid))
    THEN Raise(r.db)
    ELSE Ok(r.db, methods \o r.msgs)

\* An update: a message with a text, a button press with its callback data,
\* or the scheduler's SchedUpdate.
MessageUpdate(uid, text) == [kind |-> "message", uid |-> uid, text |-> text, data |-> ""]
CallbackUpdate(uid, data) == [kind |-> "callback_query", uid |-> uid, text |-> "", data |-> data]
SchedUpdate(uid) == [kind |-> "sched", uid |-> uid, text |-> "", data |-> ""]

\* The names the users type, one per user, some with surrounding blanks.
TypedNames == << "n1", " n2 ", "n3 ", " n4" >>

\* The texts user uid sends: the two commands, a name and a message without
\* text.
Texts(uid) == {"/start", "/about", TypedNames[uid], ""}

\* str.strip() on the texts of the model
Strip(text) ==
    CASE text = " n2 " -> "n2"
      [] text = "n3 " -> "n3"
      [] text = " n4" -> "n4"
      [] OTHER -> text

\* The callback data user uid sends: the buttons of the bot and a value that
\* is no Cmd.  Of the opinion buttons user 1 presses male-pro, user 3 male-con
\* and the others either of the female ones, so that two users agree and one
\* opposes them, whichever side has two; of the seven survey replies, three.
\* No button carries SCHED.
CallbackData(uid) ==
    (CASE uid = 1 -> {MALE_PRO}
       [] uid = 3 -> {MALE_CON}
       [] OTHER -> {FEMALE_PRO, FEMALE_CON})
    \cup {IM_AVAILABLE_NOW, STOP_SEARCHING, IM_NO_LONGER_AVAILABLE,
          ANSWER_AVAILABLE, ANSWER_UNAVAILABLE, S1, S5, S_NO_ANSWER, "no-such-cmd"}

\* The commands whose handlers can search for a match, so that the choice
\* among equal scores matters.
SearchCmds == {IM_AVAILABLE_NOW, STOP_SEARCHING, ANSWER_AVAILABLE, ANSWER_UNAVAILABLE}

\* The first and last names of the users' profiles; a profile can lack the
\* last name.
FirstNames == << "f1", "f2", "f3", "f4" >>
LastNames == << "", "l2", "", "l4" >>

\* format_full_name(update.message.from_): first and last name with a blank
\* between them, stripped.
format_full_name(uid) ==
    IF LastNames[uid] = "" THEN FirstNames[uid]
    ELSE FirstNames[uid] \o " " \o LastNames[uid]

\* A variant of handle_update_initial_state that keeps the name a user has.
handle_update_initial_state_KeepName(db, state, name) ==
    Ok(Set(db, WaitingForOpinion(state.uid, IF state.name # "" THEN state.name ELSE name)),
       << WelcomeMsg(state.uid), WhatIsYourOpinionMsg(state.uid) >>)

handle_update_initial_state(db, state, name) ==
    Ok(Set(db, WaitingForOpinion(state.uid, name)),
       << WelcomeMsg(state.uid), WhatIsYourOpinionMsg(state.uid) >>)

handle_update_waiting_for_name(db, state, text) ==
    IF text = "" THEN Ok(db, << UnexpectedReqMsg(state.uid) >>)
    ELSE Ok(Set(db, Inactive(state.uid, Strip(text), state.sex, state.opinion, None)),
            << RegisteredMsg(state.uid), InactiveMsg(state.uid) >>)

\* The last branch of handle_update: a button press or a SchedUpdate for a
\* user that is neither unregistered nor WaitingForName.
HandleUpdateCmd(db, ts, state, update, pick) ==
    IF update.kind = "sched"
    THEN handle_msgs(<<>>, handle_cmd(db, ts, state, SCHED, pick))
    ELSE IF update.kind = "message" THEN Ok(db, << UnexpectedReqMsg(state.uid) >>)
    ELSE IF update.data \notin Cmd
    THEN Ok(db, << AnswerCallbackQuery(state.uid), UnexpectedReqMsg(state.uid) >>)
    ELSE IF update.data = SCHED THEN Raise(db)
    ELSE handle_msgs(<< AnswerCallbackQuery(state.uid), EchoMethod(state.uid, update.data) >>,
                     handle_cmd(db, ts, state, update.data, pick))

handle_update(db, ts, update, pick) ==
    LET state == Get(db, update.uid)
    IN IF state.tag = "InitialState" \/ (update.kind = "message" /\ update.text = "/start")
       THEN IF update.kind = "sched" THEN Ok(db, <<>>)
            ELSE IF update.kind # "message" THEN Ok(db, << UnexpectedReqMsg(state.uid) >>)
            ELSE handle_update_initial_state(db, state, format_full_name(update.uid))
       ELSE IF update.kind = "message" /\ update.text = "/about"
       THEN Ok(db, << AboutMethod(state.uid) >>)
       ELSE IF state.tag = "WaitingForName"
       THEN IF update.kind = "sched" THEN Ok(db, <<>>)
            ELSE IF update.kind # "message" THEN Ok(db, << UnexpectedReqMsg(state.uid) >>)
            ELSE handle_update_waiting_for_name(db, state, update.text)
       ELSE HandleUpdateCmd(db, ts, state, update, pick)

\* ---------------------------------------------------------------------
\* The state of the program: the MemDb and the clock
\* ---------------------------------------------------------------------
VARIABLES
    states,         \* MemDb._states
    by_score,       \* MemDb._by_score
    by_sched,       \* MemDb._by_sched
    now,            \* Timestamp.now()
    tx,             \* Db._tx is not None
    queue,          \* Db._queue: the TxData not yet taken by the StoreThread
    table,          \* the rows of the states table, by uid
    was_exception,  \* StoreThread.was_exception
    tasks           \* the scheduler task and the tasks of the webhook requests

vars == << states, by_score, by_sched, now, tx, queue, table, was_exception, tasks >>

\* The variables of the transaction and of persistence.
dvars == << tx, queue, table, was_exception, tasks >>

\* The tasks of the event loop: the scheduler and MaxRequests webhook
\* requests at a time.
MaxRequests == 1
SchedulerTask == 0
Tasks == 0..MaxRequests

\* A task that is not inside handle_update_and_call: methods is what
\* handle_update returned, out the methods handed to call_method so far, open
\* whether its DbTx is not closed yet, txdata its DbTx._txdata, err whether
\* handle_update raised and error the exception the last
\* handle_update_and_call of the task ended with.
IdleTask ==
    [methods |-> <<>>, out |-> <<>>, open |-> FALSE, txdata |-> PQEmpty,
     err |-> FALSE, error |-> ""]

\* Persistence left aside: nothing is queued or stored and no task is
\* followed through handle_update_and_call.
NoPersistence ==
    /\ tx = FALSE
    /\ queue = <<>>
    /\ table = PQEmpty
    /\ was_exception = FALSE
    /\ tasks = [t \in Tasks |-> IdleTask]

\* The database as the handlers see it: a transaction just opened on the
\* MemDb.
Db == [states |-> states, by_score |-> by_score, by_sched |-> by_sched,
       txdata |-> PQEmpty]

Init ==
    /\ states = MemDbInit.states
    /\ by_score = MemDbInit.by_score
    /\ by_sched = MemDbInit.by_sched
    /\ now = 0
    /\ NoPersistence

\* handle_update_and_call: handle_update inside a transaction.  The set calls
\* are applied to the MemDb as they are made, so they stay when it raises.
\* The transaction, the queue of the StoreThread and the calls of the
\* returned methods are followed step by step in SpecDriver.
handle_update_and_call(update, pick) ==
    \E r \in { handle_update(Db, now, update, pick) } :
        /\ states' = r.db.states
        /\ by_score' = r.db.by_score
        /\ by_sched' = r.db.by_sched
        /\ now' = now
        /\ UNCHANGED dvars

\* Whether two users can have the same score when a handler searches: two
\* keys of one index with equal scores, or a key with the score of a user
\* that becomes Active at ts.  Without such a tie the key top() returns is
\* the only one with the least score, whatever the order inside the heap.
TiePossible(db, ts) ==
    \E o \in Opinion : \E k \in DOMAIN db.by_score[o] :
        \/ db.by_score[o][k] = <<3, 0 - ts>>
        \/ \E j \in DOMAIN db.by_score[o] : j # k /\ db.by_score[o][j] = db.by_score[o][k]

\* The keys the heap can prefer among equal scores while `update` is handled.
Picks(update) ==
    IF update.kind = "message" THEN {update.uid}
    ELSE IF update.kind = "callback_query" /\ update.data \notin SearchCmds THEN {update.uid}
    ELSE IF TiePossible(Db, now) THEN Uid
    ELSE {update.uid}

\* The messages the webhook can receive.
MessageUpdates == UNION {{MessageUpdate(uid, text) : text \in Texts(uid)} : uid \in Uid}

\* The button presses the webhook can receive.
CallbackUpdates == UNION {{CallbackUpdate(uid, data) : data \in CallbackData(uid)} : uid \in Uid}

\* A variant of IsDue that does not look at the clock.
IsDue_NoClock(state, ts) == state # NoState /\ sched(state) # None

\* Whether the scheduler handles `state` at ts: it is the first of by_sched
\* and its time has come.
IsDue(state, ts) == state # NoState /\ sched(state) # None /\ sched(state) <= ts

\* The SchedUpdates the scheduler can make now: for a state get_first_sched
\* can return, when it is due.
SchedUpdates ==
    {SchedUpdate(first) : first \in {k \in SchedTops(by_sched) :
                                        IsDue(get_first_sched(Db, k), now)}}

\* tg_webhook with a message
WebhookMessage ==
    \E update \in MessageUpdates :
        \E pick \in Picks(update) : handle_update_and_call(update, pick)

\* tg_webhook with a button press
WebhookCallback ==
    \E update \in CallbackUpdates :
        \E pick \in Picks(update) : handle_update_and_call(update, pick)

\* One round of the scheduler's loop with a due state.
Scheduler ==
    \E update \in SchedUpdates :
        \E pick \in Picks(update) : handle_update_and_call(update, pick)

\* The timestamps at which a search, a question or the wait for a survey
\* runs out.
Deadlines ==
    UNION {{states[u].searching_until, states[u].asking_until, states[u].until,
            states[u].survey_ts} : u \in DOMAIN states} \ {None}

\* Time passes, up to the next moments of interest.
ClockAdvance ==
    /\ \E t \in Deadlines : t > now /\ t <= MaxTime /\ now' = t
    /\ UNCHANGED << states, by_score, by_sched >>
    /\ UNCHANGED dvars

Next ==
    \/ WebhookMessage
    \/ WebhookCallback
    \/ Scheduler
    \/ ClockAdvance

Spec == Init /\ [][Next]_vars

\* ---------------------------------------------------------------------
\* The service restarted with registered users
\* ---------------------------------------------------------------------
\* The clock of the restarted service is not advanced beyond MaxTimeLoaded.
MaxTimeLoaded == 60

\* A state Db.__init__ loads from the states table: a registered user that
\* is Inactive without a survey, or Active since the moment the service
\* starts (the clock of the model starts there, at 0).
LoadedState(uid, opinion, active) ==
    LET inactive == Inactive(uid, Strip(TypedNames[uid]),
                             IF uid % 2 = 1 THEN MALE ELSE FEMALE, opinion, None)
    IN IF active THEN get_active(inactive, 0) ELSE inactive

\* Db.__init__: the MemDb after the set calls for the loaded states.  User 1
\* supports, user 3 opposes, user 2 either.
LoadedDb(opinion2, actives) ==
    Set(Set(Set(MemDbInit, LoadedState(1, PRO, 1 \in actives)),
            LoadedState(2, opinion2, 2 \in actives)),
        LoadedState(3, CON, 3 \in actives))

InitLoaded ==
    \E opinion2 \in Opinion : \E actives \in SUBSET Uid :
        /\ states = LoadedDb(opinion2, actives).states
        /\ by_score = LoadedDb(opinion2, actives).by_score
        /\ by_sched = LoadedDb(opinion2, actives).by_sched
        /\ now = 0
        /\ NoPersistence

\* The moments of interest of the restarted service: the deadlines, and for
\* a Searching user the first moment at which a question of ASKING_DURATION
\* no longer fits into the search.
Moments ==
    Deadlines \cup
    {states[u].searching_until - ASKING_DURATION + 1 :
        u \in {v \in DOMAIN states : IsSearching(states[v])}}

ClockAdvanceLoaded ==
    /\ \E t \in Moments : t > now /\ t <= MaxTimeLoaded /\ now' = t
    /\ UNCHANGED << states, by_score, by_sched >>
    /\ UNCHANGED dvars

\* The buttons of the messages a registered user has on the screen.
Buttons == {IM_AVAILABLE_NOW, STOP_SEARCHING, IM_NO_LONGER_AVAILABLE,
            ANSWER_AVAILABLE, ANSWER_UNAVAILABLE}

\* The presses of those buttons the webhook can receive.
ButtonUpdates == {CallbackUpdate(uid, data) : uid \in Uid, data \in Buttons}

\* tg_webhook with the press of one of the buttons
WebhookButton ==
    \E update \in ButtonUpdates :
        \E pick \in Picks(update) : handle_update_and_call(update, pick)

NextLoaded ==
    \/ WebhookButton
    \/ Scheduler
    \/ ClockAdvanceLoaded

SpecLoaded == InitLoaded /\ [][NextLoaded]_vars

\* ---------------------------------------------------------------------
\* Link symmetry
\* ---------------------------------------------------------------------

\* C1: in every reachable state, user a is Asking with asked_uid = b if and
\* only if user b is Asked with asked_by = a, and then a.asking_until = b.until.
C1_AskingAskedSymmetry ==
    /\ \A a \in DOMAIN states :
          states[a].tag = "Asking" =>
              LET b == Get(Db, states[a].asked_uid)
              IN b.tag = "Asked" /\ b.asked_by = a /\ b.until = states[a].asking_until
    /\ \A b \in DOMAIN states :
          states[b].tag = "Asked" =>
              LET a == Get(Db, states[b].asked_by)
              IN a.tag = "Asking" /\ a.asked_uid = b /\ a.asking_until = states[b].until

\* C2: in every reachable state, user x is Waiting with waiting_for = a (not
\* None) if and only if user a is Asking with waited_by = x.
C2_ReservationSymmetry ==
    /\ \A x \in DOMAIN states :
          (states[x].tag = "Waiting" /\ states[x].waiting_for # None) =>
              LET a == Get(Db, states[x].waiting_for)
              IN a.tag = "Asking" /\ a.waited_by = x
    /\ \A a \in DOMAIN states :
          (states[a].tag = "Asking" /\ states[a].waited_by # None) =>
              LET x == Get(Db, states[a].waited_by)
              IN x.tag = "Waiting" /\ x.waiting_for = a

\* ---------------------------------------------------------------------
\* Matching
\* ---------------------------------------------------------------------

\* The state of user uid after a call that returned the database an inactive
\* user with a survey due SURVEY_DURATION after ts.
MatchedAt(db, pre, ts) ==
    Get(db, pre.uid) = Inactive(pre.uid, pre.name, pre.sex, pre.opinion,
                                ts + SURVEY_DURATION)

\* What the claim C3 says of one call search_for_match(db, now, state, pick):
\* when the candidate is a Waiting user with a reservation, the call does not
\* raise, both become Inactive with a survey, the two FoundPartner messages
\* are returned and the asker the candidate waited for has waited_by None.
ReservedMatchCompletes(db, state, pick) ==
    LET cand == search_for_user(db, other_opinion(state.opinion), pick).state
        m == search_for_match(db, now, state, pick)
        asker == Get(m.db, cand.waiting_for)
    IN (cand.tag = "Waiting" /\ cand.waiting_for # None) =>
          /\ ~m.err
          /\ MatchedAt(m.db, state, now)
          /\ MatchedAt(m.db, cand, now)
          /\ m.msgs = << FoundPartnerMsg(state.uid, cand.uid, cand.name, cand.sex),
                         FoundPartnerMsg(cand.uid, state.uid, state.name, state.sex) >>
          /\ (asker.tag = "Asking" => asker.waited_by = None)

\* C3: when search_for_match selects a Waiting candidate that holds a
\* reservation, the match completes without an assertion failure: the asker's
\* waited_by is cleared and searcher and candidate become Inactive with a
\* survey.  Stated of the searches the handlers make now: the search of an
\* Inactive or Active user that pressed IM_AVAILABLE_NOW, and the renewed
\* search of an asker whose Asked user refuses or lets the question time out.
C3_ReservedCandidateMatches ==
    \A u \in DOMAIN states : \A pick \in Uid :
        /\ states[u].tag \in {"Inactive", "Active"} =>
               ReservedMatchCompletes(Db, states[u], pick)
        /\ (states[u].tag = "Asked" /\ Get(Db, states[u].asked_by).tag = "Asking") =>
               ReservedMatchCompletes(Set(Db, get_inactive(states[u], None)),
                                      Get(Db, states[u].asked_by), pick)

\* The updates the program can receive now.
Updates == MessageUpdates \cup CallbackUpdates \cup SchedUpdates

\* The positions of the FoundPartner messages in msgs.
FoundPartners(msgs) == {i \in 1..Len(msgs) : msgs[i].kind = "FoundPartner"}

\* C4: the messages of one handle_update contain FoundPartner(x, y) exactly
\* when they contain FoundPartner(y, x); x's message carries y's name and sex;
\* no user receives two FoundPartner messages; and afterwards x and y are
\* Inactive with survey_ts = ts + SURVEY_DURATION.
C4_FoundPartnerPairs ==
    \A update \in Updates : \A pick \in Picks(update) :
        LET r == handle_update(Db, now, update, pick)
            fp == FoundPartners(r.msgs)
        IN \A i \in fp :
              LET m == r.msgs[i]
                  x == Get(Db, m.uid)
                  y == Get(Db, m.other_uid)
              IN /\ m.uid # m.other_uid
                 /\ m.other_name = y.name
                 /\ m.other_sex = y.sex
                 /\ \E j \in fp : r.msgs[j] = FoundPartnerMsg(y.uid, x.uid, x.name, x.sex)
                 /\ \A j \in fp : r.msgs[j].uid = m.uid => j = i
                 /\ MatchedAt(r.db, x, now)
                 /\ MatchedAt(r.db, y, now)

\* A state in which an update makes a match: two FoundPartner messages.
C4_Witness ==
    \E update \in Updates : \E pick \in Picks(update) :
        Cardinality(FoundPartners(handle_update(Db, now, update, pick).msgs)) = 2

\* C5: a user x receives FoundPartner only if, when the update arrived, x was
\* Asking or Waiting, or x is the sender and pressed IM_AVAILABLE_NOW, or x is
\* the sender, was Asked and pressed ANSWER_AVAILABLE.
C5_MatchRequiresConsent ==
    \A update \in Updates : \A pick \in Picks(update) :
        LET r == handle_update(Db, now, update, pick)
        IN \A i \in FoundPartners(r.msgs) :
              LET x == Get(Db, r.msgs[i].uid)
              IN \/ IsSearching(x)
                 \/ update = CallbackUpdate(x.uid, IM_AVAILABLE_NOW)
                 \/ (x.tag = "Asked" /\ update = CallbackUpdate(x.uid, ANSWER_AVAILABLE))

\* A state in which an Asked user that presses ANSWER_AVAILABLE is matched
\* with the Asking user.
C5_Witness ==
    \E u \in DOMAIN states : \E pick \in Picks(CallbackUpdate(u, ANSWER_AVAILABLE)) :
        LET r == handle_update(Db, now, CallbackUpdate(u, ANSWER_AVAILABLE), pick)
        IN /\ states[u].tag = "Asked"
           /\ \E i \in FoundPartners(r.msgs) : r.msgs[i].uid = u
           /\ \E i \in FoundPartners(r.msgs) :
                 r.msgs[i].uid = states[u].asked_by /\ IsSearching(Get(Db, r.msgs[i].uid))

\* ---------------------------------------------------------------------
\* Inputs and registration
\* ---------------------------------------------------------------------

\* The commands with a transition for a state of the given tag.
ValidCmds(tag) ==
    CASE tag = "WaitingForOpinion" -> {MALE_PRO, MALE_CON, FEMALE_PRO, FEMALE_CON}
      [] tag = "Inactive" -> {IM_AVAILABLE_NOW} \cup SurveyCmds
      [] tag = "Active" -> {IM_AVAILABLE_NOW, IM_NO_LONGER_AVAILABLE}
      [] tag \in {"Asking", "Waiting"} -> {STOP_SEARCHING}
      [] tag = "Asked" -> {ANSWER_AVAILABLE, ANSWER_UNAVAILABLE}
      [] OTHER -> {}

\* An input that is not valid in the sender's state: a button press whose
\* value is no command or a command without a transition for the state (every
\* press while WaitingForName), or a text that is no command while the sender
\* is registered or WaitingForOpinion.
IsInvalid(update) ==
    LET tag == Get(Db, update.uid).tag
    IN \/ update.kind = "callback_query" /\ update.data \notin ValidCmds(tag)
       \/ /\ update.kind = "message"
          /\ update.text \notin {"/start", "/about"}
          /\ tag \notin {"InitialState", "WaitingForName"}

\* C6: an input that is not valid in the sender's state yields exactly one
\* Unexpected response, to the sender, raises no exception and leaves the
\* database unchanged.
C6_InvalidInputUnexpected ==
    \A update \in MessageUpdates \cup CallbackUpdates : \A pick \in Picks(update) :
        LET r == handle_update(Db, now, update, pick)
        IN IsInvalid(update) =>
              /\ ~r.err
              /\ r.db = Db
              /\ Cardinality({i \in 1..Len(r.msgs) : r.msgs[i].kind = "Unexpected"}) = 1
              /\ \A i \in 1..Len(r.msgs) :
                    r.msgs[i].kind = "Unexpected" => r.msgs[i].uid = update.uid

\* C7: /start sent by a user in any state sets the user's state to
\* WaitingForOpinion(uid, display name) and returns Welcome followed by the
\* opinion question.
C7_StartRestarts ==
    \A uid \in Uid : \A pick \in Uid :
        LET r == handle_update(Db, now, MessageUpdate(uid, "/start"), pick)
        IN /\ ~r.err
           /\ Get(r.db, uid) = WaitingForOpinion(uid, format_full_name(uid))
           /\ r.msgs = << WelcomeMsg(uid), WhatIsYourOpinionMsg(uid) >>

\* A state with an Asking, a Waiting and an Asked user, each of which /start
\* turns into WaitingForOpinion.
C7_Witness ==
    /\ \A tag \in {"Asking", "Waiting", "Asked"} :
          \E uid \in DOMAIN states :
              /\ states[uid].tag = tag
              /\ handle_update(Db, now, MessageUpdate(uid, "/start"), uid).db.states[uid].tag
                     = "WaitingForOpinion"

\* The tags of a user that has finished registration.
Registered == {"Inactive", "Asking", "Waiting", "Active", "Asked"}

\* C8: no update other than the user's own /start takes a registered user
\* back to WaitingForOpinion or WaitingForName (or out of the registered
\* states), and a user that was stored is never InitialState again.
C8_RegistrationOneWay ==
    /\ \A u \in DOMAIN states : states[u].tag # "InitialState"
    /\ \A update \in Updates : \A pick \in Picks(update) :
          LET r == handle_update(Db, now, update, pick)
          IN \A u \in DOMAIN states :
                /\ Get(r.db, u).tag # "InitialState"
                /\ (states[u].tag \in Registered /\ update # MessageUpdate(u, "/start"))
                       => Get(r.db, u).tag \in Registered

\* A state in which an update that is not a /start changes the state of two
\* registered users, and another in the same state is a registered user's
\* /start.
C8_Witness ==
    /\ \E update \in Updates \ {MessageUpdate(u, "/start") : u \in Uid} :
          \E pick \in Picks(update) :
              Cardinality({u \in DOMAIN states :
                              /\ states[u].tag \in Registered
                              /\ handle_update(Db, now, update, pick).db.states[u]
                                     # states[u]}) >= 2
    /\ \E u \in DOMAIN states :
          /\ states[u].tag \in Registered
          /\ Get(handle_update(Db, now, MessageUpdate(u, "/start"), u).db, u).tag
                 = "WaitingForOpinion"

\* ---------------------------------------------------------------------
\* The search for a candidate
\* ---------------------------------------------------------------------

\* The rank of a stored state among the candidates of the given opinion, or
\* NoScore when it is no candidate: Waiting users by searching_until, then
\* Asking users that nobody waits for by asking_until, then Active users,
\* the latest since first.
Rank(s, opinion) ==
    IF s.opinion # opinion THEN NoScore
    ELSE CASE s.tag = "Waiting" -> <<1, s.searching_until>>
           [] s.tag = "Asking" /\ s.waited_by = None -> <<2, s.asking_until>>
           [] s.tag = "Active" -> <<3, 0 - s.since>>
           [] OTHER -> NoScore

\* The candidates of the given opinion among the stored states.
Eligible(opinion) == {u \in DOMAIN states : Rank(states[u], opinion) # NoScore}

\* Lexicographic order on pairs.
LexLess(a, b) == a[1] < b[1] \/ (a[1] = b[1] /\ a[2] < b[2])

\* The candidates of the least rank.
Least(opinion) ==
    {u \in Eligible(opinion) :
        \A v \in Eligible(opinion) :
            ~LexLess(Rank(states[v], opinion), Rank(states[u], opinion))}

\* C9: search_for_user(opinion) returns the stored state of a candidate of
\* the least rank, and returns None only when there is no candidate.
C9_SearchReturnsLeast ==
    \A opinion \in Opinion : \A pick \in Uid :
        LET r == search_for_user(Db, opinion, pick)
        IN /\ ~r.err
           /\ (r.state = NoState) <=> (Eligible(opinion) = {})
           /\ r.state # NoState =>
                 /\ r.state.uid \in Least(opinion)
                 /\ r.state = states[r.state.uid]

\* A state with candidates of two classes for one opinion, of which the
\* search returns the one of the lesser rank.
C9_Witness ==
    \E opinion \in Opinion : \E u, v \in Eligible(opinion) :
        /\ LexLess(Rank(states[u], opinion), Rank(states[v], opinion))
        /\ states[u].tag # states[v].tag
        /\ \A pick \in Uid : search_for_user(Db, opinion, pick).state = states[u]

\* The least of a non-empty set of uids.
MinUid(S) == CHOOSE u \in S : \A v \in S : u <= v

\* C10 as stated: among candidates of equal least rank, search_for_user
\* returns the one with the smallest Uid.
C10_TieSmallestUid ==
    \A opinion \in Opinion : \A pick \in Uid :
        Eligible(opinion) # {} =>
            search_for_user(Db, opinion, pick).state.uid = MinUid(Least(opinion))

\* C10, amended: among candidates of equal least rank, search_for_user
\* returns one of them, and each of them is one the search can return: the
\* order of the heap decides, not the Uid.
C10_TieAnyLeast ==
    \A opinion \in Opinion :
        /\ \A pick \in Uid :
              Eligible(opinion) # {} =>
                  search_for_user(Db, opinion, pick).state.uid \in Least(opinion)
        /\ \A u \in Least(opinion) :
              \E pick \in Uid : search_for_user(Db, opinion, pick).state.uid = u

\* A state with two candidates of equal least rank, where the search can
\* return the one with the larger Uid.
C10_Witness ==
    \E opinion \in Opinion : \E pick \in Uid :
        /\ Cardinality(Least(opinion)) >= 2
        /\ search_for_user(Db, opinion, pick).state.uid # MinUid(Least(opinion))

\* ---------------------------------------------------------------------
\* The indices of the database
\* ---------------------------------------------------------------------

\* C11: for each opinion o, by_score[o] holds exactly the uids whose stored
\* state has a rank for o, each with that rank: the index rebuilt from the
\* state map.
C11_ScoreIndexCoherent ==
    \A o \in Opinion :
        /\ DOMAIN by_score[o] = Eligible(o)
        /\ \A u \in Eligible(o) : by_score[o][u] = Rank(states[u], o)

\* A state in which an Asking user has left the index because somebody
\* waits for it, while the waiting user is in the index of its opinion.
C11_Witness ==
    \E a \in DOMAIN states :
        /\ states[a].tag = "Asking"
        /\ states[a].waited_by # None
        /\ a \notin DOMAIN by_score[states[a].opinion]
        /\ states[a].waited_by \in DOMAIN by_score[other_opinion(states[a].opinion)]

\* The time at which a state is scheduled, or None: the survey of an Inactive
\* user, the next refresh of a Searching user, the end of the question of an
\* Asked user.
SchedOf(s) ==
    CASE s.tag = "Inactive" -> s.survey_ts
      [] s.tag \in {"Asking", "Waiting"} -> s.next_refresh
      [] s.tag = "Asked" -> s.until
      [] OTHER -> None

\* The uids whose stored state is scheduled.
Scheduled == {u \in DOMAIN states : SchedOf(states[u]) # None}

\* C12: by_sched holds exactly the uids whose stored state is scheduled, each
\* with the time of its state, and get_first_sched returns a stored state with
\* the least time, None only when no state is scheduled.
C12_SchedIndexCoherent ==
    /\ DOMAIN by_sched = Scheduled
    /\ \A u \in Scheduled : by_sched[u] = SchedOf(states[u])
    /\ \A pick \in Uid :
          LET first == get_first_sched(Db, pick)
          IN /\ (first = NoState) <=> (Scheduled = {})
             /\ first # NoState =>
                   /\ first.uid \in Scheduled
                   /\ first = states[first.uid]
                   /\ \A u \in Scheduled : SchedOf(first) <= SchedOf(states[u])

\* A state with two users scheduled for different times and a stored user
\* that is not scheduled.
C12_Witness ==
    /\ \E u, v \in Scheduled : SchedOf(states[u]) < SchedOf(states[v])
    /\ \E u \in DOMAIN states : states[u].tag = "Active" /\ u \notin DOMAIN by_sched

\* ---------------------------------------------------------------------
\* Times and reservations
\* ---------------------------------------------------------------------

\* C13: every Searching user has next_refresh <= searching_until and every
\* Asking user has asking_until <= searching_until.
C13_TimeOrdering ==
    \A u \in DOMAIN states :
        /\ IsSearching(states[u]) => states[u].next_refresh <= states[u].searching_until
        /\ states[u].tag = "Asking" => states[u].asking_until <= states[u].searching_until

\* A state after a search that found an Active user too late to ask: the
\* searcher waits for nobody, with less than ASKING_DURATION left, while a
\* user of the other opinion is Active; and a Searching user was refreshed.
C13_Witness ==
    /\ \E w, c \in DOMAIN states :
          /\ states[w].tag = "Waiting"
          /\ states[w].waiting_for = None
          /\ states[c].tag = "Active"
          /\ states[c].opinion = other_opinion(states[w].opinion)
          /\ states[w].searching_until < now + ASKING_DURATION
    /\ \E u \in DOMAIN states :
          /\ IsSearching(states[u])
          /\ states[u].next_refresh > states[u].searching_until
                                          - SEARCH_DURATION + SEARCH_UPDATE_INTERVAL

\* C14: no two distinct Waiting users have the same waiting_for other than
\* None, and no two distinct Asking users have the same waited_by other than
\* None.
C14_ReservationsExclusive ==
    \A u, v \in DOMAIN states :
        u # v =>
            /\ ~ /\ states[u].tag = "Waiting" /\ states[v].tag = "Waiting"
                 /\ states[u].waiting_for # None
                 /\ states[u].waiting_for = states[v].waiting_for
            /\ ~ /\ states[u].tag = "Asking" /\ states[v].tag = "Asking"
                 /\ states[u].waited_by # None
                 /\ states[u].waited_by = states[v].waited_by

\* ---------------------------------------------------------------------
\* The answers of an Asked user and the end of a search
\* ---------------------------------------------------------------------

\* The Asked users.
AskedUsers == {u \in DOMAIN states : states[u].tag = "Asked"}

\* C15: when an Asked user presses ANSWER_AVAILABLE at ts, before or after
\* until, the call does not raise, the user and the asker become Inactive with
\* survey_ts = ts + SURVEY_DURATION, and the messages of handle_cmd_asked are
\* the two FoundPartner messages followed by the messages of the renewed
\* search of the asker's runner-up, and by nothing when there is no runner-up.
C15_AnswerAvailable ==
    \A u \in AskedUsers : \A pick \in Picks(CallbackUpdate(u, ANSWER_AVAILABLE)) :
        LET state == states[u]
            other == Get(Db, state.asked_by)
            r == handle_update(Db, now, CallbackUpdate(u, ANSWER_AVAILABLE), pick)
            c == handle_cmd_asked(Db, now, state, ANSWER_AVAILABLE, pick)
            db2 == Set(Set(Db, get_inactive(state, now + SURVEY_DURATION)),
                       get_inactive(other, now + SURVEY_DURATION))
            found == << FoundPartnerMsg(u, other.uid, other.name, other.sex),
                        FoundPartnerMsg(other.uid, u, state.name, state.sex) >>
        IN /\ ~r.err
           /\ ~c.err
           /\ MatchedAt(r.db, state, now)
           /\ MatchedAt(r.db, other, now)
           /\ Len(c.msgs) >= 2
           /\ SubSeq(c.msgs, 1, 2) = found
           /\ IF other.waited_by = None
              THEN c.msgs = found
              ELSE SubSeq(c.msgs, 3, Len(c.msgs)) =
                       search_for_match(db2, now, Get(db2, other.waited_by), pick).msgs

\* An Asked user that answers after until, and an Asked user whose asker has
\* a runner-up.
C15_Witness ==
    /\ \E u \in AskedUsers : states[u].until < now
    /\ \E u \in AskedUsers : Get(Db, states[u].asked_by).tag = "Asking"
                             /\ Get(Db, states[u].asked_by).waited_by # None

\* The updates that end the question put to the Asked user u without a match:
\* the refusal, and the SchedUpdate when it is due.
RefusalUpdates(u) ==
    {CallbackUpdate(u, ANSWER_UNAVAILABLE)} \cup (SchedUpdates \cap {SchedUpdate(u)})

\* C16: when an Asked user presses ANSWER_UNAVAILABLE or its SchedUpdate is
\* handled at ts, the call does not raise, the user becomes Inactive with
\* survey_ts None, the first message of handle_cmd_asked is
\* AfterReplyUnavailable (refusal) or AfterAskingTimedOut (SchedUpdate) for
\* that user, and afterwards the asker is not Asking that user.
C16_RefusalReleasesAsker ==
    \A u \in AskedUsers : \A update \in RefusalUpdates(u) : \A pick \in Picks(update) :
        LET state == states[u]
            cmd == IF update.kind = "sched" THEN SCHED ELSE ANSWER_UNAVAILABLE
            r == handle_update(Db, now, update, pick)
            c == handle_cmd_asked(Db, now, state, cmd, pick)
            other == Get(r.db, state.asked_by)
        IN /\ ~r.err
           /\ Get(r.db, u) = get_inactive(state, None)
           /\ Len(c.msgs) >= 1
           /\ c.msgs[1] = IF cmd = SCHED THEN AfterAskingTimedOut(u)
                          ELSE AfterReplyUnavailableMsg(u)
           /\ ~(other.tag = "Asking" /\ other.asked_uid = u)

\* The Searching users whose search has run out.
TimedOutSearchers ==
    {u \in DOMAIN states : IsSearching(states[u]) /\ states[u].searching_until <= now}

\* What C17 and C18 say of the user an Asking user had asked and of its
\* runner-up, after the call for the Asking user state returned r with the
\* messages c of handle_cmd_searching, mine being the state the call gave the
\* user and head the message for it: the asked user is Inactive with
\* survey_ts None, AfterAskingTimedOut for it follows head, and the messages
\* after these are those of the renewed search of the runner-up, none when
\* there is no runner-up.
AskedReleased(state, mine, r, c, head, pick) ==
    LET asked == Get(Db, state.asked_uid)
        db1 == Set(Set(Db, mine), get_inactive(asked, None))
    IN /\ Get(r.db, state.asked_uid) = get_inactive(asked, None)
       /\ Len(c.msgs) >= 2
       /\ SubSeq(c.msgs, 1, 2) = << head, AfterAskingTimedOut(state.asked_uid) >>
       /\ IF state.waited_by = None
          THEN Len(c.msgs) = 2
          ELSE SubSeq(c.msgs, 3, Len(c.msgs)) =
                   search_for_match(db1, now, Get(db1, state.waited_by), pick).msgs

\* What C17 says of the messages and of the asked user when the SchedUpdate
\* of the timed-out searcher u is handled now: the call does not raise,
\* SearchTimedOut is the first message, and an Asking user's asked user and
\* runner-up are released.
TimeoutReleases(u, pick) ==
    LET state == states[u]
        r == handle_update(Db, now, SchedUpdate(u), pick)
        c == handle_cmd_searching(Db, now, state, SCHED, pick)
    IN /\ ~r.err
       /\ Len(c.msgs) >= 1
       /\ c.msgs[1] = SearchTimedOutMsg(u)
       /\ state.tag = "Asking" =>
              AskedReleased(state, get_active(state, now), r, c,
                            SearchTimedOutMsg(u), pick)

LinksIntact(state) ==
    IF state.tag = "Asking"
    THEN /\ Get(Db, state.asked_uid).tag = "Asked"
         /\ Get(Db, state.asked_uid).asked_by = state.uid
         /\ state.waited_by # None =>
                /\ Get(Db, state.waited_by).tag = "Waiting"
                /\ Get(Db, state.waited_by).waiting_for = state.uid
    ELSE state.waiting_for # None =>
             /\ Get(Db, state.waiting_for).tag = "Asking"
             /\ Get(Db, state.waiting_for).waited_by = state.uid

Searchers == {u \in DOMAIN states : IsSearching(states[u])}

\* What C18 says of the call for the Searching user u that presses
\* STOP_SEARCHING now.
StopReleases(u, pick) ==
    LET state == states[u]
        r == handle_update(Db, now, CallbackUpdate(u, STOP_SEARCHING), pick)
        c == handle_cmd_searching(Db, now, state, STOP_SEARCHING, pick)
    IN /\ ~r.err
       /\ Get(r.db, u) = get_inactive(state, None)
       /\ Len(c.msgs) >= 1
       /\ c.msgs[1] = AfterStopSearchMsg(u)
       /\ state.tag = "Asking" =>
              AskedReleased(state, get_inactive(state, None), r, c,
                            AfterStopSearchMsg(u), pick)
       /\ (state.tag = "Waiting" /\ state.waiting_for # None) =>
              /\ c.msgs = << AfterStopSearchMsg(u) >>
              /\ Get(r.db, state.waiting_for).tag = "Asking"
              /\ Get(r.db, state.waiting_for).waited_by = None

\* C18: when a Searching user presses STOP_SEARCHING, the call does not raise,
\* the user becomes Inactive with survey_ts None and gets AfterStopSearch, and
\* every link to it is released in the same call: the user an Asking user
\* asked becomes Inactive with survey_ts None and gets AfterAskingTimedOut and
\* the runner-up is searched for again; the Asking user a Waiting user waited
\* for has waited_by None.
C18_StopReleasesLinks ==
    \A u \in Searchers : \A pick \in Picks(CallbackUpdate(u, STOP_SEARCHING)) :
        StopReleases(u, pick)

\* The same for the users whose links are intact.
StopReleasesIntact ==
    \A u \in Searchers : \A pick \in Picks(CallbackUpdate(u, STOP_SEARCHING)) :
        LinksIntact(states[u]) => StopReleases(u, pick)

\* ---------------------------------------------------------------------
\* The scheduler
\* ---------------------------------------------------------------------

\* C20: the scheduler hands SchedUpdate(u) to handle_update only when the
\* state of u that handle_update reads has a sched that is defined and <= now
\* and is the earliest of all; the check and the read are one step (there is
\* no await between them), so the state read is the state checked, and when
\* no state is due the scheduler hands over nothing.
C20_TickOnlyWhenDue ==
    /\ \A update \in SchedUpdates :
          LET state == Get(Db, update.uid)
          IN /\ update.uid \in DOMAIN states
             /\ sched(state) # None
             /\ sched(state) <= now
             /\ \A v \in Scheduled : sched(state) <= sched(states[v])
             /\ \E pick \in Uid : get_first_sched(Db, pick) = state
    /\ SchedUpdates = {} <=> \A v \in Scheduled : sched(states[v]) > now

\* The scheduler has a due state to handle while another user's sched is
\* still in the future.
C20_Witness ==
    /\ SchedUpdates # {}
    /\ \E v \in Scheduled : sched(states[v]) > now

\* ---------------------------------------------------------------------
\* The countdown of a search
\* ---------------------------------------------------------------------
\* The service restarted while user 1 was searching: its search runs until
\* some second up to MaxUntil and its refresh is due.  The clock advances
\* second by second and the scheduler handles the state when it is due, on
\* time or late.
MaxUntil == 23

InitRefresh ==
    \E until \in 1..MaxUntil :
        LET db == Set(MemDbInit,
                      get_waiting(LoadedState(1, PRO, FALSE), until, 0, None))
        IN /\ states = db.states
           /\ by_score = db.by_score
           /\ by_sched = db.by_sched
           /\ now = 0
           /\ NoPersistence

ClockSecond ==
    /\ now < MaxUntil
    /\ now' = now + 1
    /\ UNCHANGED << states, by_score, by_sched >>
    /\ UNCHANGED dvars

NextRefresh == Scheduler \/ ClockSecond

SpecRefresh == InitRefresh /\ [][NextRefresh]_vars

\* The Searching users whose search has not run out.
RunningSearchers ==
    {u \in DOMAIN states : IsSearching(states[u]) /\ states[u].searching_until > now}

\* C19: when the SchedUpdate of a Searching user with searching_until > ts is
\* handled at ts, the call does not raise, only next_refresh of that user
\* changes and becomes the smaller of searching_until and
\* ts + SEARCH_UPDATE_INTERVAL, and the only message is one UpdateSearching
\* whose seconds_left is the least multiple of SEARCH_UPDATE_INTERVAL that is
\* >= searching_until - ts.
C19_RefreshCountdown ==
    \A u \in RunningSearchers : \A pick \in Picks(SchedUpdate(u)) :
        LET state == states[u]
            left == state.searching_until - now
            r == handle_update(Db, now, SchedUpdate(u), pick)
            c == handle_cmd_searching(Db, now, state, SCHED, pick)
            next == Get(r.db, u).next_refresh
        IN /\ ~r.err
           /\ Get(r.db, u) = [state EXCEPT !.next_refresh = next]
           /\ \A v \in DOMAIN states \ {u} : Get(r.db, v) = states[v]
           /\ next \in {state.searching_until, now + SEARCH_UPDATE_INTERVAL}
           /\ next <= state.searching_until
           /\ next <= now + SEARCH_UPDATE_INTERVAL
           /\ Len(c.msgs) = 1
           /\ c.msgs[1].kind = "UpdateSearching"
           /\ c.msgs[1].uid = u
           /\ c.msgs[1].seconds_left % SEARCH_UPDATE_INTERVAL = 0
           /\ c.msgs[1].seconds_left >= left
           /\ c.msgs[1].seconds_left - SEARCH_UPDATE_INTERVAL < left
           /\ r.msgs = c.msgs

\* A refresh that is due with less than SEARCH_UPDATE_INTERVAL left, so that
\* next_refresh becomes searching_until, after an earlier refresh found a
\* multiple of SEARCH_UPDATE_INTERVAL left.
C19_Witness ==
    \E u \in RunningSearchers :
        /\ SchedUpdate(u) \in SchedUpdates
        /\ states[u].searching_until < now + SEARCH_UPDATE_INTERVAL
        /\ states[u].searching_until % SEARCH_UPDATE_INTERVAL = 0
        /\ states[u].next_refresh = SEARCH_UPDATE_INTERVAL

\* ---------------------------------------------------------------------
\* The transaction, the StoreThread and the calls of the methods (db.py,
\* main.py), step by step
\* ---------------------------------------------------------------------
\* The clock of this specification is not advanced beyond MaxTimeDriver and
\* a new transaction is followed only while fewer than MaxQueue TxData wait
\* for the StoreThread.
MaxTimeDriver == 19
MaxQueue == 1

\* The fields of each state class, besides uid.
Fields(tag) ==
    CASE tag = "InitialState" -> {}
      [] tag = "WaitingForOpinion" -> {"name"}
      [] tag = "WaitingForName" -> {"name", "sex", "opinion"}
      [] tag = "Inactive" -> {"name", "sex", "opinion", "survey_ts"}
      [] tag = "Asking" -> {"name", "sex", "opinion", "searching_until", "next_refresh",
                            "asked_uid", "asking_until", "waited_by"}
      [] tag = "Waiting" -> {"name", "sex", "opinion", "searching_until", "next_refresh",
                             "waiting_for"}
      [] tag = "Active" -> {"name", "sex", "opinion", "since"}
      [] tag = "Asked" -> {"name", "sex", "opinion", "until", "asked_by"}

\* The value of a member of the enums Sex and Opinion, and the member of a
\* value.
EnumValue(member) == IF member \in {MALE, PRO} THEN 0 ELSE 1
EnumMember(field, value) ==
    IF field = "sex" THEN (IF value = 0 THEN MALE ELSE FEMALE)
    ELSE (IF value = 0 THEN PRO ELSE CON)

\* dump_state: the JSON object of the fields of the state, the enums by
\* their values, with the name of the class under "type".
dump_state(state) ==
    [f \in Fields(state.tag) \cup {"uid", "type"} |->
        IF f = "type" THEN state.tag
        ELSE IF f \in {"sex", "opinion"} THEN EnumValue(state[f])
        ELSE state[f]]

\* load_state: the state of the class named by "type", from the other keys.
load_state(d) ==
    [f \in DOMAIN Blank(None, "") |->
        IF f = "tag" THEN d["type"]
        ELSE IF f \notin DOMAIN d THEN Blank(None, "")[f]
        ELSE IF f \in {"sex", "opinion"} THEN EnumMember(f, d[f])
        ELSE d[f]]

\* A variant of StoreRows whose INSERT leaves the row of a known uid alone.
StoreRows_InsertOnly(rows, item) ==
    [u \in (DOMAIN rows) \cup (DOMAIN item) |->
        IF u \in DOMAIN rows THEN rows[u] ELSE dump_state(item[u])]

\* StoreThread.run for one TxData: insert_state for each of its states.
StoreRows(rows, item) ==
    [u \in (DOMAIN rows) \cup (DOMAIN item) |->
        IF u \in DOMAIN item THEN dump_state(item[u]) ELSE rows[u]]

\* Db.__init__, one round of the loop over the rows: the set call for the
\* row of uid, when the table has one.
LoadRow(db, rows, uid) ==
    IF uid \in DOMAIN rows THEN Set(db, load_state(rows[uid])) ELSE db

\* Db.__init__: the MemDb after the set call for each row of the table (the
\* uids of the table are those of Uid).
LoadRows(rows) ==
    LoadRow(LoadRow(LoadRow(MemDbInit, rows, 1), rows, 2), rows, 3)

\* The service starts on a table with three registered users: user 1 is
\* Active, users 2 and 3 are Inactive.
InitDriver ==
    LET rows == [u \in Uid |-> dump_state(LoadedState(u, IF u = 3 THEN CON ELSE PRO, u = 1))]
        db == LoadRows(rows)
    IN /\ states = db.states
       /\ by_score = db.by_score
       /\ by_sched = db.by_sched
       /\ now = 0
       /\ tx = FALSE
       /\ queue = <<>>
       /\ table = rows
       /\ was_exception = FALSE
       /\ tasks = [t \in Tasks |-> IdleTask]

\* A variant of CanRun for an event loop that could switch tasks anywhere.
CanRun_Preemptive(t) == TRUE

\* Whether task t can run: the event loop switches tasks only at an await,
\* and there is none between the opening of a transaction and its close.
CanRun(t) == \A o \in Tasks \ {t} : ~tasks[o].open

\* Whether task t is outside handle_update_and_call.
IsIdle(t) == ~tasks[t].open /\ tasks[t].out = tasks[t].methods

\* A variant of NextMethod that calls the methods from the last to the first.
NextMethod_Backwards(task) == task.methods[Len(task.methods) - Len(task.out)]

\* The method handle_update_and_call hands to call_method next.
NextMethod(task) == task.methods[Len(task.out) + 1]

\* The errors handle_update_and_call can end with.
TransactionInProgress == "Transaction already in progress"
StoringThreadException == "Storing thread had an exception"
AssertionError == "AssertionError"
RequestFailed == "Request failed"
ClientError == "ClientError"

\* Task t enters handle_update_and_call(update): Db.transaction(), which
\* raises when a transaction is open, and handle_update inside it.
Enter(t, update, pick) ==
    /\ IsIdle(t)
    /\ CanRun(t)
    /\ Len(queue) < MaxQueue
    /\ IF tx
       THEN /\ tasks' = [tasks EXCEPT ![t] =
                           [IdleTask EXCEPT !.error = TransactionInProgress]]
            /\ UNCHANGED << states, by_score, by_sched, tx >>
       ELSE \E r \in { handle_update(Db, now, update, pick) } :
               /\ states' = r.db.states
               /\ by_score' = r.db.by_score
               /\ by_sched' = r.db.by_sched
               /\ tx' = TRUE
               /\ tasks' = [tasks EXCEPT ![t] =
                              [methods |-> r.msgs, out |-> <<>>, open |-> TRUE,
                               txdata |-> r.db.txdata, err |-> r.err,
                               error |-> ""]]
    /\ UNCHANGED << now, queue, table, was_exception >>

\* The button presses followed here: user 1 answers a question, user 2
\* starts a search, user 3 starts and stops a search.
DriverButtons(uid) ==
    CASE uid = 1 -> {ANSWER_AVAILABLE, ANSWER_UNAVAILABLE}
      [] uid = 2 -> {IM_AVAILABLE_NOW}
      [] OTHER -> {IM_AVAILABLE_NOW, STOP_SEARCHING}

\* Those of them the users have on the screen.
ScreenUpdates ==
    {update \in ButtonUpdates :
        /\ update.data \in DriverButtons(update.uid)
        /\ update.data \in ValidCmds(Get(Db, update.uid).tag)}

\* tg_webhook: a request task enters handle_update_and_call with a button
\* press.
WebhookEnter ==
    \E t \in Tasks \ {SchedulerTask} : \E update \in ScreenUpdates :
        \E pick \in Picks(update) : Enter(t, update, pick)

\* scheduler: the task enters handle_update_and_call with the SchedUpdate of
\* a due state.
SchedulerEnter ==
    \E update \in SchedUpdates :
        \E pick \in Picks(update) : Enter(SchedulerTask, update, pick)

\* A variant of TxDataOnClose that hands over nothing when handle_update
\* raised.
TxDataOnClose_Rollback(task) == IF task.err THEN PQEmpty ELSE task.txdata

\* DbTx.close: the TxData handed to Db._close_tx.
TxDataOnClose(task) == task.txdata

\* The end of the with block of task t: DbTx.close and Db._close_tx, then the
\* exception of handle_update if there was one, else the call of the first
\* method.
Exit(t) ==
    LET task == tasks[t]
        closed == [task EXCEPT !.open = FALSE, !.txdata = PQEmpty, !.err = FALSE]
    IN /\ task.open
       /\ tx' = FALSE
       /\ IF was_exception
          THEN /\ queue' = queue
               /\ tasks' = [tasks EXCEPT ![t] =
                              [IdleTask EXCEPT !.error = StoringThreadException]]
          ELSE /\ queue' = Append(queue, TxDataOnClose(task))
               /\ tasks' = [tasks EXCEPT ![t] =
                              IF task.err
                              THEN [IdleTask EXCEPT !.error = AssertionError]
                              ELSE IF task.methods = <<>> THEN IdleTask
                              ELSE [closed EXCEPT !.out = << NextMethod(task) >>]]
       /\ UNCHANGED << states, by_score, by_sched, now, table, was_exception >>

TxExit == \E t \in Tasks : Exit(t)

\* What a request to Telegram can end with: a reply with ok true, a reply
\* with ok false, or no reply at all (client_session.get or resp.json raise).
Responses == {"ok", "rejected", "raised"}

\* A variant of call_method_base that raises for every reply with ok false.
call_method_base_NoException(method, response) ==
    IF response = "raised" THEN ClientError
    ELSE IF response = "rejected" THEN RequestFailed
    ELSE ""

\* call_method_base: the exception the call of `method` ends with, "" when
\* it returns.  Only the reply with ok false is looked at, and forgiven to
\* answerCallbackQuery; an exception of the request itself is not caught.
call_method_base(method, response) ==
    IF response = "raised" THEN ClientError
    ELSE IF response = "rejected" /\ method.kind # "AnswerCallbackQuery" THEN RequestFailed
    ELSE ""

\* The method task t has handed to call_method and not heard of yet.
Sent(t) == tasks[t].out[Len(tasks[t].out)]

\* Whether task t waits for the reply to a method.
Calling(t) ==
    /\ ~tasks[t].open
    /\ tasks[t].out # <<>>
    /\ \A o \in Tasks : ~tasks[o].open

\* The call of a method of task t ends with `response`: on an exception the
\* task leaves handle_update_and_call with it, else it calls the next method
\* or returns after the last.
Call(t, response) ==
    /\ Calling(t)
    /\ \E error \in { call_method_base(Sent(t), response) } :
          tasks' = [tasks EXCEPT ![t] =
                      IF error # "" THEN [IdleTask EXCEPT !.error = error]
                      ELSE IF tasks[t].out = tasks[t].methods THEN IdleTask
                      ELSE [tasks[t] EXCEPT !.out = Append(tasks[t].out,
                                                           NextMethod(tasks[t]))]]
    /\ UNCHANGED << states, by_score, by_sched, now, tx, queue, table,
                    was_exception >>

\* The call of a method of task t returned: the task calls the next method,
\* or leaves handle_update_and_call after the last.
CallNext ==
    \E t \in Tasks : \E response \in Responses :
        /\ Calling(t)
        /\ call_method_base(Sent(t), response) = ""
        /\ Call(t, response)

\* The call of a method of task t failed (call_method_base raises): the rest
\* of the methods is not called.
CallFails ==
    \E t \in Tasks : \E response \in Responses :
        /\ Calling(t)
        /\ call_method_base(Sent(t), response) # ""
        /\ Call(t, response)

\* StoreThread.run: the thread takes a TxData from the queue and stores it.
StoreWrite ==
    /\ ~was_exception
    /\ queue # <<>>
    /\ table' = StoreRows(table, Head(queue))
    /\ queue' = Tail(queue)
    /\ UNCHANGED << states, by_score, by_sched, now, tx, was_exception, tasks >>

\* StoreThread.run: storing the TxData taken from the queue raises; the
\* thread notes it and ends.
StoreFails ==
    /\ ~was_exception
    /\ queue # <<>>
    /\ was_exception' = TRUE
    /\ queue' = Tail(queue)
    /\ UNCHANGED << states, by_score, by_sched, now, tx, table, tasks >>

ClockAdvanceDriver ==
    /\ \E t \in Deadlines : t > now /\ t <= MaxTimeDriver /\ now' = t
    /\ UNCHANGED << states, by_score, by_sched >>
    /\ UNCHANGED dvars

NextDriver ==
    \/ WebhookEnter
    \/ SchedulerEnter
    \/ TxExit
    \/ CallNext
    \/ CallFails
    \/ StoreWrite
    \/ StoreFails
    \/ ClockAdvanceDriver

SpecDriver == InitDriver /\ [][NextDriver]_vars

\* What C21 says of one step of task t.
CallsFollowUpdates(t) ==
    LET task == tasks[t]
        after == tasks'[t]
    IN /\ (task.out = <<>> /\ after.out # <<>>) =>
              /\ task.open
              /\ ~after.open
              /\ ~tx'
              /\ \A u \in DOMAIN task.txdata : states'[u] = task.txdata[u]
              /\ after.out = << task.methods[1] >>
       /\ (task.out # <<>> /\ after.out # <<>> /\ after.out # task.out) =>
              /\ ~task.open
              /\ after.methods = task.methods
              /\ after.out = SubSeq(task.methods, 1, Len(task.out) + 1)

\* C21: in every handle_update_and_call, the states set by handle_update are
\* in the MemDb and the transaction is closed when the first method is handed
\* to call_method, and the methods are handed to call_method in the order in
\* which handle_update returned them.
C21_UpdatesBeforeCalls == [][\A t \in Tasks : CallsFollowUpdates(t)]_vars

\* A task has called two of its methods and has more to call, while the
\* other task is calling its own.
C21_Witness ==
    \E t, o \in Tasks :
        /\ t # o
        /\ Len(tasks[t].out) >= 2
        /\ Len(tasks[t].out) < Len(tasks[t].methods)
        /\ tasks[o].out # <<>>

\* The tasks whose transaction is open.
OpenTasks == {t \in Tasks : tasks[t].open}

\* C22: at most one transaction is open at any time, Db._tx tells whether
\* one is, and no task enters handle_update while the transaction of another
\* is open: Db.transaction never finds a transaction in progress, which it
\* would answer with an exception and without a second DbTx.
C22_OneTransaction ==
    /\ Cardinality(OpenTasks) <= 1
    /\ tx <=> OpenTasks # {}
    /\ \A t \in Tasks : tasks[t].error # TransactionInProgress
    /\ \A t \in OpenTasks : \A o \in Tasks \ {t} : ~ENABLED Enter(o, SchedUpdate(o), o)

\* The transaction of one task is open while the other task has called some
\* of its methods and has more to call.
C22_Witness ==
    \E t \in OpenTasks : \E o \in Tasks \ {t} :
        /\ tasks[o].out # <<>>
        /\ Len(tasks[o].out) < Len(tasks[o].methods)

\* What C23 says of one step of task t.  When the task enters the
\* transaction, _txdata holds the state in the MemDb of every uid whose state
\* changed and of no uid whose state is not the one written; when the task
\* closes it, the MemDb stays as it is, the queue gets that one TxData, and
\* after an exception of handle_update no method is called and the exception
\* is the outcome.
CloseHandsOver(t) ==
    LET task == tasks[t]
        after == tasks'[t]
    IN /\ (~task.open /\ after.open) =>
              /\ \A u \in DOMAIN after.txdata : after.txdata[u] = states'[u]
              /\ \A u \in DOMAIN states' :
                    (u \notin DOMAIN states \/ states'[u] # states[u]) =>
                        u \in DOMAIN after.txdata
       /\ (task.open /\ ~after.open /\ ~was_exception) =>
              /\ UNCHANGED << states, by_score, by_sched >>
              /\ queue' = Append(queue, task.txdata)
              /\ \A u \in DOMAIN task.txdata : task.txdata[u] = states'[u]
              /\ task.err => (after.error = AssertionError /\ after.out = <<>>)
              /\ ~task.err => after.error = ""

StorageFailureRaised ==
    /\ was_exception
    /\ \E t \in Tasks : tasks[t].error = StoringThreadException

\* C24: once the StoreThread has raised and the close of a transaction has
\* raised the storage failure, no tick and no update is handled by
\* handle_update any more: no task enters a transaction and the MemDb stays
\* as it is.
C24_NoUpdateAfterStorageFailure ==
    [][StorageFailureRaised =>
           /\ \A t \in Tasks : ~(~tasks[t].open /\ tasks'[t].open)
           /\ UNCHANGED << states, by_score, by_sched >>]_vars

\* The StoreThread has stored every TxData of the queue and has not raised.
AllStored == queue = <<>> /\ ~was_exception

\* The MemDb that Db.__init__ would build from the table holds the states of
\* the MemDb in use.
TableRebuildsStates == LoadRows(table).states = states

MaxTimeFair == 60

\* The service starts with three registered users: user 1 is Active, users 2
\* and 3 are Inactive; users 1 and 2 support, user 3 opposes.
InitFair ==
    /\ states = LoadedDb(PRO, {1}).states
    /\ by_score = LoadedDb(PRO, {1}).by_score
    /\ by_sched = LoadedDb(PRO, {1}).by_sched
    /\ now = 0
    /\ NoPersistence

\* What the webhook receives: the presses of the buttons the users have on
\* the screen, and /start from user 3.
FairUpdates == ScreenUpdates \cup {MessageUpdate(3, "/start")}

WebhookFair ==
    \E update \in FairUpdates :
        \E pick \in Picks(update) : handle_update_and_call(update, pick)

ClockAdvanceFair ==
    /\ \E t \in Deadlines : t > now /\ t <= MaxTimeFair /\ now' = t
    /\ UNCHANGED << states, by_score, by_sched >>
    /\ UNCHANGED dvars

NextFair ==
    \/ WebhookFair
    \/ Scheduler
    \/ ClockAdvanceFair

\* ENABLED <<Scheduler>>_vars, written out: a state is due whose SchedUpdate
\* changes the MemDb.
SchedulerCanAct ==
    \E update \in SchedUpdates :
        \E pick \in Picks(update) :
            LET r == handle_update(Db, now, update, pick)
            IN << r.db.states, r.db.by_score, r.db.by_sched >>
                   # << states, by_score, by_sched >>

\* WF_vars(Scheduler), with its ENABLED written out as SchedulerCanAct.
SchedulerRuns == []<>(~SchedulerCanAct) \/ []<><<Scheduler>>_vars

\* The scheduler's loop never ends (main.py, while True) and time passes:
\* a round of the loop that can change the MemDb is made in the end, and so
\* is a step of the clock.  Nothing obliges a user to send anything.
SpecFair ==
    InitFair /\ [][NextFair]_vars /\ SchedulerRuns /\ WF_vars(ClockAdvanceFair)

\* The restarted service of SpecLoaded, where no user sends /start, with the
\* same scheduler and clock: there both C26_AskedLeaves and C27_SearchEnds
\* hold.
SpecLoadedFair ==
    InitLoaded /\ [][NextLoaded]_vars /\ SchedulerRuns /\ WF_vars(ClockAdvanceLoaded)

\* C26: under a running scheduler and an advancing clock, whatever the other
\* users send (/start of the asker included), a user who is Asked with a
\* deadline the clock reaches is in the end no longer Asked.
C26_AskedLeaves ==
    \A u \in Uid :
        (Get(Db, u).tag = "Asked" /\ Get(Db, u).until <= MaxTimeFair)
            ~> (Get(Db, u).tag # "Asked")

\* C27: under a running scheduler and an advancing clock, whatever the other
\* users do, a user who is Asking or Waiting with a searching_until the clock
\* reaches is in the end no longer Asking or Waiting.
C27_SearchEnds ==
    \A u \in Uid :
        (IsSearching(Get(Db, u)) /\ Get(Db, u).searching_until <= MaxTimeFair)
            ~> ~IsSearching(Get(Db, u))

\* ---------------------------------------------------------------------
\* The branches of search_for_match
\* ---------------------------------------------------------------------

\* search_for_match is also applied to databases of four users in which
\* every kind of candidate meets a user that starts a search and a runner-up
\* whose search is resumed.  User 1 (PRO) is the one search_for_match is
\* called for: Inactive, Active, or Waiting for user 3, whose question has
\* just ended.  User 2 (CON) is the candidate: Inactive, Active, Waiting, or
\* Asking user 4 (PRO).

\* The call is made at 60, 70, ... 10 * MaxMatchStep.
MaxMatchStep == 9
MatchTimes == {10 * k : k \in 6..MaxMatchStep}

\* What a resumed search has left, and what the candidate's question has left.
SearchLeft == {10, 30}
AskLeft == {5, ASKING_DURATION}

RegisteredUser(uid, opinion) ==
    Inactive(uid, Strip(TypedNames[uid]), IF uid % 2 = 1 THEN MALE ELSE FEMALE,
             opinion, None)

\* The state of user 1 before the call.
SeekerState(kind, ts, left) ==
    CASE kind = "Active" -> get_active(RegisteredUser(1, PRO), 0)
      [] kind = "Waiting" ->
            get_waiting(RegisteredUser(1, PRO), ts + left, ts + SEARCH_UPDATE_INTERVAL, 3)
      [] OTHER -> RegisteredUser(1, PRO)

\* The state of user 2 before the call.
CandidateState(kind, ts, left) ==
    CASE kind = "Active" -> get_active(RegisteredUser(2, CON), 0)
      [] kind = "Waiting" ->
            get_waiting(RegisteredUser(2, CON), ts + 30, ts + SEARCH_UPDATE_INTERVAL, None)
      [] kind = "Asking" ->
            get_asking(RegisteredUser(2, CON), ts + left - ASKING_DURATION + SEARCH_DURATION,
                       ts + SEARCH_UPDATE_INTERVAL, 4, ts + left, None)
      [] OTHER -> RegisteredUser(2, CON)

\* The MemDb with those states, with user 3 when user 1 waited for it and
\* with user 4 when user 2 asks it.
MatchDb(seeker, candidate) ==
    LET db1 == Set(Set(MemDbInit, seeker), candidate)
        db2 == IF seeker.tag = "Waiting" THEN Set(db1, RegisteredUser(3, CON)) ELSE db1
    IN IF candidate.tag = "Asking"
       THEN Set(db2, get_asked(RegisteredUser(4, PRO), candidate.asking_until, 2))
       ELSE db2

InitMatch ==
    \E ts \in MatchTimes :
      \E kind1 \in {"Inactive", "Active", "Waiting"} :
        \E kind2 \in {"Inactive", "Active", "Waiting", "Asking"} :
          \E left1 \in SearchLeft : \E left2 \in AskLeft :
            LET db == MatchDb(SeekerState(kind1, ts, left1),
                              CandidateState(kind2, ts, left2))
            IN /\ states = db.states
               /\ by_score = db.by_score
               /\ by_sched = db.by_sched
               /\ now = ts
               /\ NoPersistence

\* Whether search_for_match has not been called for user 1 yet.
BeforeSearch ==
    \/ states[1].tag = "Active"
    \/ states[1].tag = "Inactive" /\ states[1].survey_ts = None
    \/ states[1].tag = "Waiting" /\ states[1].waiting_for = 3

\* The call of search_for_match for user 1.
SearchForMatch ==
    /\ BeforeSearch
    /\ \E pick \in DOMAIN states :
          LET r == search_for_match(Db, now, states[1], pick)
          IN /\ states' = r.db.states
             /\ by_score' = r.db.by_score
             /\ by_sched' = r.db.by_sched
    /\ UNCHANGED now
    /\ UNCHANGED dvars

NextMatch == SearchForMatch

SpecMatch == InitMatch /\ [][NextMatch]_vars

\* The users search_for_match is called for: registered users that start a
\* search or are in one.
MatchSeekers ==
    {u \in DOMAIN states : states[u].tag \in {"Inactive", "Active", "Asking", "Waiting"}}

\* The end of the search of `state` as search_for_match takes it at ts.
SearchingUntilOf(state, ts) ==
    IF IsSearching(state) THEN state.searching_until ELSE ts + SEARCH_DURATION

\* What C28 says of search_for_match for user s when search_for_user, with
\* `pick` among equal scores, returns an Active user.
ActiveCandidateAsked(s, pick) ==
    LET state == states[s]
        found == search_for_user(Db, other_opinion(state.opinion), pick)
        c == found.state
        r == search_for_match(Db, now, state, pick)
        s1 == Get(r.db, s)
        c1 == Get(r.db, c.uid)
    IN (~found.err /\ c.tag = "Active") =>
          /\ ~r.err
          /\ ~r.found
          /\ IF now + ASKING_DURATION <= SearchingUntilOf(state, now)
             THEN /\ s1.tag = "Asking"
                  /\ s1.asked_uid = c.uid
                  /\ s1.asking_until = now + ASKING_DURATION
                  /\ s1.waited_by = None
                  /\ c1.tag = "Asked"
                  /\ c1.until = now + ASKING_DURATION
                  /\ c1.asked_by = s
                  /\ Len(r.msgs) = 1
                  /\ r.msgs[1].kind = "AreYouAvailable"
                  /\ r.msgs[1].uid = c.uid
             ELSE /\ s1.tag = "Waiting"
                  /\ s1.waiting_for = None
                  /\ c1 = c
                  /\ r.msgs = <<>>

\* C28: when search_for_match for user s at ts finds an Active user c, then
\* if ts + ASKING_DURATION <= the searching_until of s, s becomes Asking c
\* until ts + ASKING_DURATION with waited_by None, c becomes Asked by s until
\* then and exactly one AreYouAvailable message goes to c; otherwise s becomes
\* Waiting for nobody, c stays Active and there is no message.
C28_ActiveCandidate ==
    \A s \in MatchSeekers : \A pick \in Uid : ActiveCandidateAsked(s, pick)

\* Both cases at once: a user that starts a search and a Searching user with
\* less than ASKING_DURATION left, each with an Active user that
\* search_for_user returns.
C28_Witness ==
    /\ \E s \in MatchSeekers :
          /\ ~IsSearching(states[s])
          /\ search_for_user(Db, other_opinion(states[s].opinion), s).state.tag = "Active"
    /\ \E s \in MatchSeekers :
          /\ IsSearching(states[s])
          /\ states[s].searching_until < now + ASKING_DURATION
          /\ search_for_user(Db, other_opinion(states[s].opinion), s).state.tag = "Active"

\* What C29 says of search_for_match for user s when search_for_user, with
\* `pick` among equal scores, returns an Asking user nobody waits for.
AskingCandidateReserved(s, pick) ==
    LET state == states[s]
        found == search_for_user(Db, other_opinion(state.opinion), pick)
        a == found.state
        r == search_for_match(Db, now, state, pick)
        s1 == Get(r.db, s)
        a1 == Get(r.db, a.uid)
    IN (~found.err /\ a.tag = "Asking" /\ a.waited_by = None) =>
          /\ ~r.err
          /\ ~r.found
          /\ r.msgs = <<>>
          /\ s1.tag = "Waiting"
          /\ a1.tag = "Asking"
          /\ a1.asked_uid = a.asked_uid
          /\ a1.asking_until = a.asking_until
          /\ \A q \in DOMAIN states :
                states[q].tag = "Asked" => Get(r.db, q) = states[q]
          /\ IF a.asking_until <= SearchingUntilOf(state, now)
             THEN s1.waiting_for = a.uid /\ a1.waited_by = s
             ELSE s1.waiting_for = None /\ a1 = a

\* C29: when search_for_match for user s finds an Asking user a with
\* waited_by None, then if a.asking_until <= the searching_until of s, s
\* becomes Waiting for a and a.waited_by becomes s; otherwise s becomes
\* Waiting for nobody and a stays as it is; either way there is no message
\* and asked_uid and asking_until of a and the state of the user a asks stay
\* as they are.
C29_AskingCandidate ==
    \A s \in MatchSeekers : \A pick \in Uid : AskingCandidateReserved(s, pick)

\* After the call for a runner-up whose search ends before the question of
\* the Asking user found: it waits for nobody and nobody waits for the
\* Asking user.
C29_Witness ==
    \E s, a \in DOMAIN states :
        /\ states[s].tag = "Waiting"
        /\ states[s].waiting_for = None
        /\ states[a].tag = "Asking"
        /\ states[a].waited_by = None
        /\ states[a].opinion = other_opinion(states[s].opinion)
        /\ states[a].asking_until > states[s].searching_until
        /\ search_for_user(Db, states[a].opinion, a).state = states[a]

\* ---------------------------------------------------------------------
\* IM_AVAILABLE_NOW of a user that is not searching
\* ---------------------------------------------------------------------

\* The presses of IM_AVAILABLE_NOW by Inactive and Active users.
AvailableUpdates ==
    {CallbackUpdate(u, IM_AVAILABLE_NOW) :
        u \in {v \in DOMAIN states : states[v].tag \in {"Inactive", "Active"}}}

\* search_for_user finds nobody of the other opinion for user u.
NobodyEligible(u) == DOMAIN by_score[other_opinion(states[u].opinion)] = {}

\* The positions of the Searching messages in msgs.
Searchings(msgs) == {i \in 1..Len(msgs) : msgs[i].kind = "Searching"}

\* The first half of C30: when an Inactive or Active user presses
\* IM_AVAILABLE_NOW at ts and search_for_user finds nobody, the user becomes
\* Waiting for nobody until ts + SEARCH_DURATION with next_refresh
\* ts + SEARCH_UPDATE_INTERVAL, exactly one Searching message is returned, it
\* goes to that user, and the state of no other user changes.
NobodyEligibleWaits ==
    \A update \in AvailableUpdates : \A pick \in Uid :
        LET u == update.uid
            r == handle_update(Db, now, update, pick)
            u1 == Get(r.db, u)
        IN NobodyEligible(u) =>
              /\ ~r.err
              /\ u1.tag = "Waiting"
              /\ u1.searching_until = now + SEARCH_DURATION
              /\ u1.next_refresh = now + SEARCH_UPDATE_INTERVAL
              /\ u1.waiting_for = None
              /\ Cardinality(Searchings(r.msgs)) = 1
              /\ \A i \in Searchings(r.msgs) : r.msgs[i].uid = u
              /\ \A v \in DOMAIN states \ {u} : Get(r.db, v) = states[v]

\* The second half of C30: the Searching message is returned exactly when
\* the press of IM_AVAILABLE_NOW did not make a match.
SearchingUnlessMatched ==
    \A update \in AvailableUpdates : \A pick \in Uid :
        LET r == handle_update(Db, now, update, pick)
        IN (Searchings(r.msgs) # {}) <=> (FoundPartners(r.msgs) = {})

\* The same for the presses that handle_update handles without raising;
\* this holds in Spec and in SpecLoaded.
SearchingUnlessMatchedOrRaised ==
    \A update \in AvailableUpdates : \A pick \in Uid :
        LET r == handle_update(Db, now, update, pick)
        IN ~r.err => ((Searchings(r.msgs) # {}) <=> (FoundPartners(r.msgs) = {}))

\* C30: when an Inactive or Active user presses IM_AVAILABLE_NOW at ts and
\* nobody of the other opinion is eligible, the user becomes
\* Waiting(ts + SEARCH_DURATION, ts + SEARCH_UPDATE_INTERVAL, None), exactly
\* one Searching message goes to it and no other state changes; and the
\* Searching message is sent exactly when no match was made at once.
C30_NobodyEligible == NobodyEligibleWaits /\ SearchingUnlessMatched

\* ---------------------------------------------------------------------
\* The survey after a call
\* ---------------------------------------------------------------------

\* The survey replies among the buttons the users press.
SurveyReplies(u) == CallbackData(u) \cap SurveyCmds

\* What the tick of Inactive user u with a survey_ts does: survey_ts is
\* cleared, nothing else changes, u is scheduled no more and the only method
\* is HowWasTheCallMsg.
SurveyTickAsks(u, pick) ==
    LET s == Get(Db, u)
        r == handle_update(Db, now, SchedUpdate(u), pick)
    IN /\ ~r.err
       /\ r.msgs = << HowWasTheCallMsg(u) >>
       /\ Get(r.db, u) = get_inactive(s, None)
       /\ \A v \in Uid \ {u} : Get(r.db, v) = Get(Db, v)
       /\ r.db.by_score = by_score
       /\ u \notin DOMAIN r.db.by_sched
       /\ sched(Get(r.db, u)) = None

\* What a survey reply of Inactive user u does: the answer to the callback
\* query, the echo of the button and ThanksForAnsweringMsg with the reply;
\* the MemDb stays as it is.
SurveyReplyThanks(u, reply, pick) ==
    LET r == handle_update(Db, now, CallbackUpdate(u, reply), pick)
    IN /\ ~r.err
       /\ r.msgs = << AnswerCallbackQuery(u), EchoMethod(u, reply),
                      ThanksForAnsweringMsg(u, reply) >>
       /\ r.db.states = states
       /\ r.db.by_score = by_score
       /\ r.db.by_sched = by_sched

\* C31: the tick of an Inactive user whose survey_ts is set clears survey_ts
\* and sends exactly one HowWasTheCallMsg, after which the user is scheduled
\* no more; a survey reply of an Inactive user sends ThanksForAnsweringMsg
\* with the reply and changes no state, a pending survey_ts included.
C31_SurveyChain ==
    \A u \in Uid : \A pick \in Uid :
        Get(Db, u).tag = "Inactive" =>
            /\ Get(Db, u).survey_ts # None => SurveyTickAsks(u, pick)
            /\ \A reply \in SurveyReplies(u) : SurveyReplyThanks(u, reply, pick)

\* C31 witness: an Inactive user whose survey tick is due.
C31_Witness ==
    \E u \in Uid :
        /\ Get(Db, u).tag = "Inactive"
        /\ Get(Db, u).survey_ts # None
        /\ Get(Db, u).survey_ts <= now
        /\ SurveyReplies(u) # {}

\* ---------------------------------------------------------------------
\* The frame of a refresh tick
\* ---------------------------------------------------------------------

\* What the tick of searcher u changes while its search runs: of the state
\* of u the field next_refresh and nothing else, of the other users and of
\* the index by score nothing.
RefreshTouchesOnlyNextRefresh(u, pick) ==
    LET state == Get(Db, u)
        r == handle_update(Db, now, SchedUpdate(u), pick)
    IN /\ ~r.err
       /\ Get(r.db, u) = [state EXCEPT !.next_refresh = Get(r.db, u).next_refresh]
       /\ Get(r.db, u).next_refresh =
              Min(state.searching_until, now + SEARCH_UPDATE_INTERVAL)
       /\ \A v \in Uid \ {u} : Get(r.db, v) = Get(Db, v)
       /\ DOMAIN r.db.states = DOMAIN states
       /\ r.db.by_score = by_score

\* C32: the tick of an Asking or Waiting user whose searching_until is later
\* than ts changes only the next_refresh of that user: its tag,
\* searching_until, asked_uid, asking_until, waited_by and waiting_for, the
\* states of all other users and the index by score stay as they are.
C32_RefreshFrame ==
    \A u \in RunningSearchers : \A pick \in Uid : RefreshTouchesOnlyNextRefresh(u, pick)

\* C32 witness: the scheduler is about to refresh an Asking user that has a
\* runner-up waiting for it.
C32_Witness ==
    \E u \in RunningSearchers :
        /\ SchedUpdate(u) \in SchedUpdates
        /\ Get(Db, u).tag = "Asking"
        /\ Get(Db, u).waited_by # None
        /\ Get(Db, u).next_refresh < now

\* ---------------------------------------------------------------------
\* A call to Telegram that fails
\* ---------------------------------------------------------------------

\* The step in which the call of a method of task t ends without success.
CallFailed(t, response) == response # "ok" /\ Call(t, response)

\* Task t leaves handle_update_and_call with an exception: none of its
\* remaining methods is called, the task is back where it takes the next
\* update (the scheduler at the head of its loop), and what handle_update
\* did stays: the MemDb, the queue of the StoreThread and the table are as
\* they were.
Aborts(t) ==
    /\ tasks'[t].error \in {RequestFailed, ClientError}
    /\ tasks'[t].methods = <<>>
    /\ tasks'[t].out = <<>>
    /\ ~tasks'[t].open
    /\ \A o \in Tasks \ {t} : tasks'[o] = tasks[o]
    /\ UNCHANGED << states, by_score, by_sched, tx, queue, table >>

\* Task t goes on after the call: to the next method, or out of
\* handle_update_and_call without an exception after the last.
GoesOn(t) ==
    /\ tasks'[t].error = ""
    /\ IF tasks[t].out = tasks[t].methods
       THEN tasks'[t] = IdleTask
       ELSE /\ tasks'[t].methods = tasks[t].methods
            /\ tasks'[t].out = Append(tasks[t].out, NextMethod(tasks[t]))
    /\ UNCHANGED << states, by_score, by_sched, tx, queue, table >>

C33_WitnessAnswer ==
    \E t \in Tasks :
        /\ Calling(t)
        /\ Sent(t).kind = "AnswerCallbackQuery"
        /\ tasks[t].out # tasks[t].methods

\* ---------------------------------------------------------------------
\* The assertions on linked users
\* ---------------------------------------------------------------------

\* The commands handle_update can hand to handle_cmd for user u now: the
\* buttons the user presses, and SCHED when the scheduler would handle u.
CmdsNow(u) ==
    (CallbackData(u) \cap Cmd)
    \cup (IF SchedUpdate(u) \in SchedUpdates THEN {SCHED} ELSE {})

\* C34: from the empty database, whatever messages, button presses and due
\* ticks were handled, handle_cmd raises for no command: every assertion on
\* a linked user (lines 561, 566, 572, 585, 599, 727, 728, 741) finds the
\* state it expects.
C34_NoAssertionFails ==
    \A u \in Uid : \A cmd \in CmdsNow(u) : \A pick \in Uid :
        ~handle_cmd(Db, now, Get(Db, u), cmd, pick).err

\* ---------------------------------------------------------------------
\* The runner-up of an asker whose question is refused
\* ---------------------------------------------------------------------
\* Four registered users, loaded by Db.__init__: user 1 (CON) and users 3 and
\* 4 (PRO) Inactive, user 2 (PRO) Active.  The buttons are pressed in the
\* first seconds, one second apart or within the same second; afterwards
\* the clock moves to the deadlines.
MaxPressTime == 2
MaxTimeRunnerUp == 21
RunnerUpUsers == {1, 2, 3, 4}

InitRunnerUp ==
    LET db == Set(Set(Set(Set(MemDbInit, RegisteredUser(1, CON)),
                          get_active(RegisteredUser(2, PRO), 0)),
                      RegisteredUser(3, PRO)),
                  RegisteredUser(4, PRO))
    IN /\ states = db.states
       /\ by_score = db.by_score
       /\ by_sched = db.by_sched
       /\ now = 0
       /\ NoPersistence

\* The buttons pressed: users 1 and 4 look for a partner, user 3 looks for
\* one and gives up, user 2 answers the question it is asked.
RunnerUpButtons(uid) ==
    CASE uid = 2 -> {ANSWER_AVAILABLE, ANSWER_UNAVAILABLE}
      [] uid = 3 -> {IM_AVAILABLE_NOW, STOP_SEARCHING}
      [] OTHER -> {IM_AVAILABLE_NOW}

\* Those of them the users have on the screen.
RunnerUpUpdates ==
    {update \in {CallbackUpdate(uid, data) : uid \in RunnerUpUsers, data \in Buttons} :
        /\ update.data \in RunnerUpButtons(update.uid)
        /\ update.data \in ValidCmds(Get(Db, update.uid).tag)}

WebhookRunnerUp ==
    \E update \in RunnerUpUpdates :
        \E pick \in RunnerUpUsers : handle_update_and_call(update, pick)

SchedulerRunnerUp ==
    \E update \in SchedUpdates :
        \E pick \in RunnerUpUsers : handle_update_and_call(update, pick)

\* A second passes.
ClockSecondRunnerUp ==
    /\ now < MaxPressTime
    /\ now' = now + 1
    /\ UNCHANGED << states, by_score, by_sched >>
    /\ UNCHANGED dvars

\* Time passes up to a deadline.
ClockAdvanceRunnerUp ==
    /\ \E t \in Deadlines : t > now /\ t <= MaxTimeRunnerUp /\ now' = t
    /\ UNCHANGED << states, by_score, by_sched >>
    /\ UNCHANGED dvars

NextRunnerUp ==
    \/ WebhookRunnerUp
    \/ SchedulerRunnerUp
    \/ ClockSecondRunnerUp
    \/ ClockAdvanceRunnerUp

SpecRunnerUp == InitRunnerUp /\ [][NextRunnerUp]_vars

\* The refusals of Asked user b: the press of answer-unavailable, and the
\* tick once the question has run out.
Refusals(b) ==
    {CallbackUpdate(b, ANSWER_UNAVAILABLE)}
    \cup (IF Get(Db, b).until <= now THEN {SchedUpdate(b)} ELSE {})

\* Whether c is left waiting for a user that asks nobody with c as its
\* runner-up.
Stranded(db, c, a) ==
    /\ Get(db, c).tag = "Waiting"
    /\ Get(db, c).waiting_for = a
    /\ ~(Get(db, a).tag = "Asking" /\ Get(db, a).waited_by = c)

\* The Asked users whose asker has a runner-up waiting for it.
AskedWithRunnerUp ==
    {b \in DOMAIN states :
        /\ states[b].tag = "Asked"
        /\ Get(Db, states[b].asked_by).tag = "Asking"
        /\ Get(Db, states[b].asked_by).asked_uid = b
        /\ Get(Db, states[b].asked_by).waited_by # None
        /\ Get(Db, Get(Db, states[b].asked_by).waited_by).tag = "Waiting"
        /\ Get(Db, Get(Db, states[b].asked_by).waited_by).waiting_for = states[b].asked_by}

\* C35: when an Asked user refuses or times out and its asker a has a
\* runner-up c, then after the update c is not Waiting with waiting_for = a
\* unless a is still Asking with waited_by = c.
C35_RunnerUpNotStranded ==
    \A b \in AskedWithRunnerUp : \A update \in Refusals(b) : \A pick \in DOMAIN states :
        LET a == states[b].asked_by
            c == states[a].waited_by
        IN ~Stranded(handle_update(Db, now, update, pick).db, c, a)

\* ---------------------------------------------------------------------
\* The opinions of the users brought together
\* ---------------------------------------------------------------------
\* The service restarted with three registered users: users 1 (PRO) and 3
\* (CON) Active, user 2 (CON) Inactive.  The updates are those of Spec, so
\* user 2 can register again with either opinion.
InitRestart ==
    /\ states = LoadedDb(CON, {1, 3}).states
    /\ by_score = LoadedDb(CON, {1, 3}).by_score
    /\ by_sched = LoadedDb(CON, {1, 3}).by_sched
    /\ now = 0
    /\ NoPersistence

SpecRestart == InitRestart /\ [][Next]_vars

\* Whether users x and y of db are two users with opposite opinions.
Opposed(db, x, y) ==
    /\ x # y
    /\ IsWithOpinion(Get(db, x))
    /\ IsWithOpinion(Get(db, y))
    /\ Get(db, x).opinion = other_opinion(Get(db, y).opinion)

\* The users an update leaves Asking somebody they did not ask before.
NewAskers(db) ==
    {u \in DOMAIN db.states :
        /\ db.states[u].tag = "Asking"
        /\ ~(Get(Db, u).tag = "Asking" /\ Get(Db, u).asked_uid = db.states[u].asked_uid)}

\* C36: the two users of every FoundPartner message, and every user that
\* starts Asking together with the user it asks, are two different users
\* with opposite opinions when the update has been handled, also when users
\* registered again in between.
C36_OppositeOpinions ==
    \A update \in Updates : \A pick \in Picks(update) :
        LET r == handle_update(Db, now, update, pick)
        IN /\ \A i \in FoundPartners(r.msgs) :
                 Opposed(r.db, r.msgs[i].uid, r.msgs[i].other_uid)
           /\ \A u \in NewAskers(r.db) :
                 /\ Opposed(r.db, u, r.db.states[u].asked_uid)
                 /\ Get(r.db, r.db.states[u].asked_uid).tag = "Asked"
                 /\ Get(r.db, r.db.states[u].asked_uid).asked_by = u

\* ---------------------------------------------------------------------
\* The window of a search
\* ---------------------------------------------------------------------

\* Whether `update` is the tick that refreshes the running search of u.
IsRefreshOf(update, u) ==
    /\ update = SchedUpdate(u)
    /\ Get(Db, u).searching_until > now

\* What handling `update` does to the search window of user u: a user that
\* is Asking or Waiting before and after keeps searching_until, and keeps
\* next_refresh unless the update is its refresh tick; a user that starts
\* to search was Inactive or Active, pressed im-available-now itself and gets
\* the window ts + SEARCH_DURATION with the first refresh at
\* ts + SEARCH_UPDATE_INTERVAL.
WindowKept(update, pick, u) ==
    LET before == Get(Db, u)
        after == Get(handle_update(Db, now, update, pick).db, u)
    IN IF ~IsSearching(after) THEN TRUE
       ELSE IF IsSearching(before)
       THEN /\ after.searching_until = before.searching_until
            /\ ~IsRefreshOf(update, u) => after.next_refresh = before.next_refresh
       ELSE /\ before.tag \in {"Inactive", "Active"}
            /\ update = CallbackUpdate(u, IM_AVAILABLE_NOW)
            /\ after.searching_until = now + SEARCH_DURATION
            /\ after.next_refresh = now + SEARCH_UPDATE_INTERVAL

\* The updates of SpecLoaded.
LoadedUpdates == ButtonUpdates \cup SchedUpdates

\* C37: searching_until is fixed for a whole search: while a user stays
\* Asking or Waiting, whatever update is handled (a reservation, a re-search
\* after a refusal or a release, a switch between Asking and Waiting), its
\* searching_until keeps its value and so does its next_refresh outside its
\* own refresh ticks; only im-available-now of an Inactive or Active user
\* starts a window of ts + SEARCH_DURATION.
C37_SearchWindowFixed ==
    \A update \in LoadedUpdates : \A pick \in Picks(update) : \A u \in DOMAIN states :
        WindowKept(update, pick, u)

\* C37 witness: an update, which is not of user u, moves u from Asking to
\* Waiting or back at a time later than the start of its search.
C37_Witness ==
    \E update \in LoadedUpdates : \E pick \in Picks(update) : \E u \in DOMAIN states :
        LET before == Get(Db, u)
            after == Get(handle_update(Db, now, update, pick).db, u)
        IN /\ update.uid # u
           /\ IsSearching(before)
           /\ IsSearching(after)
           /\ before.tag # after.tag
           /\ before.searching_until < now + SEARCH_DURATION

\* ---------------------------------------------------------------------
\* The progress of a handled tick
\* ---------------------------------------------------------------------

\* C38: when the scheduler has handled the SchedUpdate of a due user u at ts,
\* whether handle_update raised or not, u is scheduled no more or later than
\* ts: the same entry is not due again at the same time.
C38_TickMakesProgress ==
    \A update \in SchedUpdates : \A pick \in Picks(update) :
        LET r == handle_update(Db, now, update, pick)
            after == Get(r.db, update.uid)
        IN /\ sched(after) = None \/ sched(after) > now
           /\ update.uid \in DOMAIN r.db.by_sched => r.db.by_sched[update.uid] > now

\* ---------------------------------------------------------------------
\* The order of the messages to one user
\* ---------------------------------------------------------------------

\* Whether method m is a message sent to the chat of user u.  The answer to
\* a callback query is no message, and an UpdateSearchingMsg is left aside:
\* whether it is rendered depends on msg_ids.
Addressed(m, u) == m.kind \notin {"AnswerCallbackQuery", "UpdateSearching"} /\ m.uid = u

\* The methods of task t not handed to call_method yet.
Unsent(t) ==
    {tasks[t].methods[i] : i \in (Len(tasks[t].out) + 1)..Len(tasks[t].methods)}

\* Whether task t has closed its transaction and still calls its methods.
InFlight(t) == ~tasks[t].open /\ tasks[t].out # <<>>

\* The step in which task t closes its transaction and calls its first
\* method.
FirstCall(t) == tasks[t].open /\ ~tasks'[t].open /\ tasks'[t].out # <<>>

\* C39: when a task closes its transaction and sends its first message to a
\* user, no task that closed its transaction earlier and still calls its
\* methods has a message for that user left to send.
C39_OrderPerUser ==
    [][\A t2 \in Tasks : \A t1 \in Tasks \ {t2} : \A u \in Uid :
          (FirstCall(t2) /\ InFlight(t1) /\ Addressed(tasks'[t2].out[1], u))
              => \A m \in Unsent(t1) : ~Addressed(m, u)]_vars

====
